---- MODULE Spec2Model ----
(***************************************************************************)
(* Aniblock: the layout-and-animation state model.                         *)
(*                                                                         *)
(* A Scene owns a list of blocks (Blocks and Links) and one GSAP timeline. *)
(* Every animation call edits the geometry the element has at the end of   *)
(* the timeline and inserts tweens into the timeline.                      *)
(*                                                                         *)
(* Spec is the animation of a scene of Blocks and Links; SpecSeq follows   *)
(* longer sequences of calls on plain Blocks; SpecSetup is the setup of a  *)
(* scene, where guides and constants are registered and position          *)
(* expressions evaluated; SpecPlay is a script followed by the playback of *)
(* its timeline, with its pauses, key presses and loop; SpecBuild is the   *)
(* construction of Blocks and Links in any order, chains of Links          *)
(* included, followed by one animation call.                               *)
(*                                                                         *)
(* Units.  Lengths are in quarter pixels and times in hundredths of a      *)
(* second, so that the halvings of the code (w / 2, deltaW / 2, dim / 2)   *)
(* and its factors 0.66 and 0.75 are exact on integers; HalvesExact below  *)
(* is the invariant that says no halving ever truncated.                   *)
(***************************************************************************)
EXTENDS Integers, Sequences, FiniteSets, TLC

VARIABLES
    scene,   \* the Scene's configuration: canvas size, the five durations,
             \* the guides and the constants, isPaused, and the children
             \* of its SVG element from the first drawn to the last (0 is
             \* the canvas rectangle, the others are indices into blocks)
    blocks,  \* Scene.blocks: every Block and Link, in creation order
    tl,      \* Scene.tl: the GSAP timeline (its end time, its play head, its
             \* pause points, whether it is paused, whether it has an
             \* onComplete callback and, per animated attribute, the tween
             \* that applies last)
    call     \* the call that produced this state: arguments, result, the
             \* state it started from and the tweens it inserted

vars == <<scene, blocks, tl, call>>

(***************************************************************************)
(* Bounds of the model.                                                    *)
(***************************************************************************)
MaxBlocks == 2      \* plain Blocks created
MaxLinks == 1       \* Links created
MaxCalls == 2       \* animation calls made after construction
MaxSeq == 3         \* animation calls made in a sequence on plain Blocks
MaxAdds == 2        \* guides and constants registered
MaxScript == 4      \* calls made by a script that is played
MaxKeys == 2        \* keys pressed during playback
MaxLoops == 1       \* restarts of the timeline followed
MaxElements == 4    \* Blocks and Links constructed in any order
MaxAnimations == 1  \* animation calls made on a scene constructed in any order

(***************************************************************************)
(* Inputs the caller draws from.                                           *)
(***************************************************************************)
\* the arguments of the k-th Block created
BlockArgs ==
    << [lines |-> 1, x |-> 32, y |-> 32, w |-> 16, h |-> 16],
       [lines |-> 2, x |-> 96, y |-> 96, w |-> 16, h |-> 24],
       [lines |-> 1, x |-> 32, y |-> 96, w |-> 24, h |-> 16] >>
LinkDims == {8}
MoveOffsets == {-16, 16}
MoveTargets == {96}
Sizes == {12, 36}
IdleTimes == {50}
ConfigParams ==
    { [showTime |-> 200, hideTime |-> 200, moveTime |-> 300, morphTime |-> 400,
       linkTime |-> 500] }

Edges == {"Top", "Bottom", "Left", "Right"}
WidthDirs == {"Left", "Right", "Center"}
HeightDirs == {"Up", "Down", "Center"}

(***************************************************************************)
(* An optional number (startTime: number = null).                          *)
(***************************************************************************)
None == << >>
Some(v) == <<v>>

Max(a, b) == IF a >= b THEN a ELSE b

\* v / 2 (exact: see HalvesExact)
Half(v) == v \div 2

(***************************************************************************)
(* Block and Link records.                                                 *)
(*   cls       "ABlock" | "ALink": the class of the object                 *)
(*   baseType  "Block" | "Link": the tag move_by_x / change_width read     *)
(*   lines     the number of label lines (SVG text elements)               *)
(*   exit, src, dst   a Link's exit edge and its two blocks (indices into  *)
(*             blocks); "" and 0 for a plain Block                         *)
(*   dim       the dim argument a Link was constructed with (the code does *)
(*             not keep it: it is recorded for the cross-axis properties)  *)
(***************************************************************************)
IsLink(b) == b.cls = "ALink"

LinkIds(bs) == { i \in 1..Len(bs) : IsLink(bs[i]) }
BlockIds(bs) == { i \in 1..Len(bs) : ~IsLink(bs[i]) }

\* Block.get_edge
get_edge(b, edge) ==
    IF edge = "Top" THEN b.y - Half(b.h)
    ELSE IF edge = "Right" THEN b.x + Half(b.w)
    ELSE IF edge = "Bottom" THEN b.y + Half(b.h)
    ELSE b.x - Half(b.w)

\* Block.get_perimeter (20 pixels of padding)
get_perimeter(b) == b.w * 2 + b.h * 2 + 20 * 4

(***************************************************************************)
(* The timeline.  GSAP is not part of the repository; the model keeps what *)
(* the calls read back from it, its end time, and inserts a tween the way  *)
(* TimelineLite.to(target, duration, vars, position) does: at an absolute  *)
(* time, or relative to the current end ("+=t", "-=t", or no position).    *)
(* A tween placed before time 0 is kept where it was placed.  For every     *)
(* attribute of the geometry the timeline remembers the tween that ends    *)
(* last and the tween that starts last: one of the two gives the value the *)
(* attribute has when the play head is at the end of the timeline.         *)
(* A state threaded through a call is st = [blocks, tl, added, ret, svg]:  *)
(* added collects the tweens the call inserts, ret is the value returned   *)
(* by the innermost call that has returned so far, svg is the list of the  *)
(* children of the SVG element.                                            *)
(***************************************************************************)
At(t) == [abs |-> TRUE, t |-> t]
AtEnd(t) == [abs |-> FALSE, t |-> t]

\* TimelineLite.endTime
endTime(st) == st.tl.end

\* the geometry attributes a tween animates: the translation of the group
\* (x, y) and the size of the rectangle (width, height)
TrackedProps(tw) ==
    IF tw.sel = "grp" THEN DOMAIN tw.vars \cap {"x", "y"}
    ELSE IF tw.sel = "rect" THEN DOMAIN tw.vars \cap {"width", "height"}
    ELSE {}

SameAttr(r, tw, p) == r.target = tw.target /\ r.sel = tw.sel /\ r.prop = p

Entry(tw, p) ==
    [target |-> tw.target, sel |-> tw.sel, prop |-> p,
     s |-> tw.start, e |-> tw.start + tw.dur, v |-> tw.vars[p]]

\* per attribute, the tween that ends last (of two that end together, the
\* one inserted later)
last_ending(scr, tw) ==
    { r \in scr : \A p \in TrackedProps(tw) :
                      SameAttr(r, tw, p) => r.e > tw.start + tw.dur }
    \cup { Entry(tw, p) : p \in { q \in TrackedProps(tw) :
              \A r \in scr : SameAttr(r, tw, q) => r.e <= tw.start + tw.dur } }

\* per attribute, the tween that starts last (of two that start together,
\* the one inserted later)
last_starting(scr, tw) ==
    { r \in scr : \A p \in TrackedProps(tw) :
                      SameAttr(r, tw, p) => r.s > tw.start }
    \cup { Entry(tw, p) : p \in { q \in TrackedProps(tw) :
              \A r \in scr : SameAttr(r, tw, q) => r.s <= tw.start } }

\* the tween is inserted: the end of the timeline is the latest end of its
\* tweens
tl_insert(st, tw) ==
    [st EXCEPT !.tl.end = Max(@, tw.start + tw.dur),
               !.tl.byEnd = last_ending(@, tw),
               !.tl.byStart = last_starting(@, tw),
               !.added = Append(@, tw)]

\* TimelineLite.to / TimelineLite.set (a tween of duration 0)
tl_to(st, target, sel, dur, vs, pos) ==
    tl_insert(st, [target |-> target, sel |-> sel, vars |-> vs,
                   start |-> IF pos.abs THEN pos.t ELSE st.tl.end + pos.t,
                   dur |-> dur])

\* TimelineLite.addPause("+=0", callback): a callback at the end of the
\* timeline, which has no duration
tl_addPause(st) == [st EXCEPT !.tl.pauses = @ \cup {st.tl.end}]

\* TimelineLite.addLabel(l), seek(l), removeLabel(l): the play head is put
\* at the end of the timeline
tl_seek_end(st) == [st EXCEPT !.tl.time = st.tl.end]

\* TimelineLite.eventCallback("onComplete", callback)
tl_eventCallback(t) == [t EXCEPT !.onComplete = TRUE]

\* TimelineLite.play
tl_play(t) == [t EXCEPT !.paused = FALSE]

\* TimelineLite.restart: the play head is put at 0 and the timeline plays
tl_restart(t) == [t EXCEPT !.time = 0, !.paused = FALSE, !.passed = {}]

\* the pause points ahead of the play head
tl_pending(t) == { p \in t.pauses \ t.passed : p >= t.time }

\* the timeline plays on: the play head stops at the first pause point
\* ahead, where the timeline pauses itself, or else at the end
tl_advance(t) ==
    IF tl_pending(t) # {}
    THEN LET p == CHOOSE q \in tl_pending(t) : \A r \in tl_pending(t) : q <= r
         IN [t EXCEPT !.time = p, !.paused = TRUE, !.passed = @ \cup {p}]
    ELSE [t EXCEPT !.time = t.end]

StartOf(st, startTime) == IF startTime = None THEN endTime(st) ELSE startTime[1]

(***************************************************************************)
(* Block.move_by_x / move_by_y / change_width / change_height /            *)
(* update_links and Link.update call one another.  Each is written as the  *)
(* composition of its statements, in the order the code runs them.         *)
(***************************************************************************)
RECURSIVE move_by_x(_, _, _, _, _)
RECURSIVE move_by_y(_, _, _, _, _)
RECURSIVE change_width(_, _, _, _, _)
RECURSIVE change_height(_, _, _, _, _)
RECURSIVE update_links_from(_, _, _, _)
RECURSIVE update(_, _, _)

\* return v;
return(st, v) == [st EXCEPT !.ret = v]

\* set_baseType that gives the link the tag 'Block' and never takes it back
set_baseType_kept(st, l, t) == [st EXCEPT !.blocks[l].baseType = "Block"]

\* this.links[i].baseType = t
set_baseType(st, l, t) == [st EXCEPT !.blocks[l].baseType = t]

\* Block.update_links: the loop body for links[k], then the rest of the loop
update_links_from(st, i, k, startTime) ==
    IF k > Len(st.blocks[i].links) THEN st
    ELSE update_links_from(
             set_baseType(
                 update(set_baseType(st, st.blocks[i].links[k], "Block"),
                        st.blocks[i].links[k], startTime),
                 st.blocks[i].links[k], "Link"),
             i, k + 1, startTime)

\* update_links that goes through the links twice
update_links_twice(st, i, startTime) ==
    update_links_from(update_links_from(st, i, 1, startTime), i, 1, startTime)

\* update_links that lets the links append their tweens to the timeline
update_links_appended(st, i, startTime) == update_links_from(st, i, 1, None)

\* Block.update_links
update_links(st, i, startTime) == update_links_from(st, i, 1, startTime)

\* the duration of a move: linkTime for a Link, else morphTime or moveTime
move_time(b, isMorph) ==
    IF b.baseType = "Link" THEN scene.linkTime
    ELSE IF isMorph THEN scene.morphTime
    ELSE scene.moveTime

\* tl.to(grpId, time, { x: this.x - this.xStart }, startTime)
tween_x(st, i, isMorph, start) ==
    tl_to(st, i, "grp", move_time(st.blocks[i], isMorph),
          [x |-> st.blocks[i].x - st.blocks[i].xStart], At(start))

\* tl.to(grpId, time, { y: this.y - this.yStart }, startTime)
tween_y(st, i, isMorph, start) ==
    tl_to(st, i, "grp", move_time(st.blocks[i], isMorph),
          [y |-> st.blocks[i].y - st.blocks[i].yStart], At(start))

\* Block.move_by_x
move_by_x(st, i, offset, startTime, isMorph) ==
    LET tlEndTime == endTime(st)
        start == StartOf(st, startTime)
    IN return(update_links(
                  tween_x([st EXCEPT !.blocks[i].x = @ + offset], i, isMorph, start),
                  i, Some(start)),
              Some(tlEndTime))

\* Block.move_by_y
move_by_y(st, i, offset, startTime, isMorph) ==
    LET tlEndTime == endTime(st)
        start == StartOf(st, startTime)
    IN return(update_links(
                  tween_y([st EXCEPT !.blocks[i].y = @ + offset], i, isMorph, start),
                  i, Some(start)),
              Some(tlEndTime))

\* Block.move_to_x (Position passes a number through)
move_to_x(st, i, x, startTime) ==
    LET newOffset == x - st.blocks[i].x
    IN move_by_x(st, i, newOffset, startTime, FALSE)

\* Block.move_to_y
move_to_y(st, i, y, startTime) ==
    LET newOffset == y - st.blocks[i].y
    IN move_by_y(st, i, newOffset, startTime, FALSE)

\* the tweens of the label lines: one per SVG text element of the block
RECURSIVE text_tweens(_, _, _, _, _, _)
text_tweens(st, i, n, time, vs, start) ==
    IF n = 0 THEN st
    ELSE text_tweens(tl_to(st, i, "text", time, vs, At(start)),
                     i, n - 1, time, vs, start)

\* the duration of a resize: linkTime for a Link, else morphTime
morph_time(b) == IF b.baseType = "Link" THEN scene.linkTime ELSE scene.morphTime

\* change_width: this.w = w; this.xStart += deltaW2; this.x += deltaW2
set_width(st, i, w, deltaW2) ==
    [st EXCEPT !.blocks[i].w = w,
               !.blocks[i].xStart = @ + deltaW2,
               !.blocks[i].x = @ + deltaW2]

\* anchor_width that looks at the direction only, not at the sign of deltaW
anchor_width_unsigned(st, i, deltaW, direction, start) ==
    IF direction = "Left"
    THEN move_by_x(st, i, -deltaW, Some(start), TRUE)
    ELSE IF direction = "Center"
    THEN move_by_x(st, i, -Half(deltaW), Some(start), TRUE)
    ELSE st

\* change_width: "Adjust the rectangle dimensions"
anchor_width(st, i, deltaW, direction, start) ==
    IF (deltaW > 0 /\ direction = "Left") \/ (deltaW < 0 /\ direction = "Right")
    THEN move_by_x(st, i, -deltaW, Some(start), TRUE)
    ELSE IF direction = "Center"
    THEN move_by_x(st, i, -Half(deltaW), Some(start), TRUE)
    ELSE st

\* change_width: the tween of the rectangle, then those of the label lines
tween_width(st, i, w, start) ==
    text_tweens(
        tl_to(st, i, "rect", morph_time(st.blocks[i]),
              [width |-> w, strokeDasharray |-> get_perimeter(st.blocks[i])],
              At(start)),
        i, st.blocks[i].lines, morph_time(st.blocks[i]),
        [x |-> Half(st.blocks[i].w - st.blocks[i].wStart)], start)

\* Block.change_width
change_width(st, i, w, direction, startTime) ==
    LET tlEndTime == endTime(st)
        start == StartOf(st, startTime)
        deltaW == w - st.blocks[i].w
        deltaW2 == Half(deltaW)
    IN return(update_links(
                  tween_width(
                      anchor_width(set_width(st, i, w, deltaW2),
                                   i, deltaW, direction, start),
                      i, w, start),
                  i, Some(start)),
              Some(tlEndTime))

\* set_height that leaves the origin point where it is
set_height_unshifted(st, i, h, deltaH2) == [st EXCEPT !.blocks[i].h = h]

\* change_height: this.h = h; this.yStart += deltaH2; this.y += deltaH2
set_height(st, i, h, deltaH2) ==
    [st EXCEPT !.blocks[i].h = h,
               !.blocks[i].yStart = @ + deltaH2,
               !.blocks[i].y = @ + deltaH2]

\* anchor_height that moves the block when it grows, not when it shrinks
anchor_height_grow_only(st, i, deltaH, direction, start) ==
    IF deltaH > 0 /\ direction = "Up"
    THEN move_by_y(st, i, -deltaH, Some(start), TRUE)
    ELSE IF direction = "Center"
    THEN move_by_y(st, i, -Half(deltaH), Some(start), TRUE)
    ELSE st

\* anchor_height that looks at the direction only, not at the sign of deltaH
anchor_height_unsigned(st, i, deltaH, direction, start) ==
    IF direction = "Up"
    THEN move_by_y(st, i, -deltaH, Some(start), TRUE)
    ELSE IF direction = "Center"
    THEN move_by_y(st, i, -Half(deltaH), Some(start), TRUE)
    ELSE st

\* change_height: "Adjust the rectangle dimensions"
anchor_height(st, i, deltaH, direction, start) ==
    IF (deltaH > 0 /\ direction = "Up") \/ (deltaH < 0 /\ direction = "Down")
    THEN move_by_y(st, i, -deltaH, Some(start), TRUE)
    ELSE IF direction = "Center"
    THEN move_by_y(st, i, -Half(deltaH), Some(start), TRUE)
    ELSE st

\* change_height: the tween of the rectangle, then those of the label lines
tween_height(st, i, h, start) ==
    text_tweens(
        tl_to(st, i, "rect", morph_time(st.blocks[i]),
              [height |-> h, strokeDasharray |-> get_perimeter(st.blocks[i])],
              At(start)),
        i, st.blocks[i].lines, morph_time(st.blocks[i]),
        [y |-> Half(st.blocks[i].h - st.blocks[i].hStart)], start)

\* Block.change_height
change_height(st, i, h, direction, startTime) ==
    LET tlEndTime == endTime(st)
        start == StartOf(st, startTime)
        deltaH == h - st.blocks[i].h
        deltaH2 == Half(deltaH)
    IN return(update_links(
                  tween_height(
                      anchor_height(set_height(st, i, h, deltaH2),
                                    i, deltaH, direction, start),
                      i, h, start),
                  i, Some(start)),
              Some(tlEndTime))

\* Link.update: the new size along the exit axis
update_size(this, source) ==
    IF this.exit = "Top"
    THEN this.h - (get_edge(this, "Bottom") - get_edge(source, "Top"))
    ELSE IF this.exit = "Right"
    THEN this.w - (get_edge(source, "Right") - get_edge(this, "Left"))
    ELSE IF this.exit = "Bottom"
    THEN this.h - (get_edge(source, "Bottom") - get_edge(this, "Top"))
    ELSE this.w - (get_edge(this, "Right") - get_edge(source, "Left"))

\* update_dir with the two directions of every exit edge exchanged
update_dir_swapped(exit, shrinks) ==
    IF exit = "Top" THEN (IF shrinks THEN "Down" ELSE "Up")
    ELSE IF exit = "Right" THEN (IF shrinks THEN "Left" ELSE "Right")
    ELSE IF exit = "Bottom" THEN (IF shrinks THEN "Up" ELSE "Down")
    ELSE (IF shrinks THEN "Right" ELSE "Left")

\* Link.update: the direction of the resize, by whether the link shrinks
update_dir(exit, shrinks) ==
    IF exit = "Top" THEN (IF shrinks THEN "Up" ELSE "Down")
    ELSE IF exit = "Right" THEN (IF shrinks THEN "Right" ELSE "Left")
    ELSE IF exit = "Bottom" THEN (IF shrinks THEN "Down" ELSE "Up")
    ELSE (IF shrinks THEN "Left" ELSE "Right")

\* Link.update: the resize along the exit axis
update_resize(st, l, startTime) ==
    LET this == st.blocks[l]
        new == update_size(this, st.blocks[this.src])
    IN IF this.exit \in {"Top", "Bottom"}
       THEN change_height(st, l, new, update_dir(this.exit, new < this.h), startTime)
       ELSE change_width(st, l, new, update_dir(this.exit, new < this.w), startTime)

\* update_center that leaves the link where it is
update_center_skipped(st, l, startTime) == st

\* Link.update: the move that centres the link on its source
update_center(st, l, startTime) ==
    LET this == st.blocks[l]
    IN IF this.exit \in {"Top", "Bottom"}
       THEN move_by_x(st, l, st.blocks[this.src].x - this.x, startTime, FALSE)
       ELSE move_by_y(st, l, st.blocks[this.src].y - this.y, startTime, FALSE)

\* Link.update
update(st, l, startTime) ==
    return(update_center(update_resize(st, l, startTime), l, startTime), startTime)

\* Link.unplug
unplug(st, l, startTime) ==
    LET this == st.blocks[l]
    IN IF this.exit = "Top" THEN change_height(st, l, 0, "Down", startTime)
       ELSE IF this.exit = "Right" THEN change_width(st, l, 0, "Left", startTime)
       ELSE IF this.exit = "Bottom" THEN change_height(st, l, 0, "Up", startTime)
       ELSE change_width(st, l, 0, "Right", startTime)

\* Link.plug
plug(st, l, startTime) ==
    LET this == st.blocks[l]
        source == st.blocks[this.src]
        dest == st.blocks[this.dst]
    IN IF this.exit = "Top" THEN
           change_height(st, l, get_edge(source, "Top") - get_edge(dest, "Bottom"),
                         "Up", startTime)
       ELSE IF this.exit = "Right" THEN
           change_width(st, l, get_edge(dest, "Left") - get_edge(source, "Right"),
                        "Right", startTime)
       ELSE IF this.exit = "Bottom" THEN
           change_height(st, l, get_edge(dest, "Top") - get_edge(source, "Bottom"),
                         "Down", startTime)
       ELSE
           change_width(st, l, get_edge(source, "Left") - get_edge(dest, "Right"),
                        "Left", startTime)

\* show whose fade is placed after the end of the timeline, not before it
show_fade_after(st, i, startTime) ==
    LET tlEndTime == endTime(st)
        start == StartOf(st, startTime)
        time == scene.showTime
        s1 == tl_to(st, i, "rect", time, [strokeDashoffset |-> 0], At(start))
        s2 == tl_to(s1, i, "grp", (time * 66) \div 100, [fillOpacity |-> 1],
                    AtEnd((time * 75) \div 100))
    IN [s2 EXCEPT !.blocks[i].isVisible = TRUE, !.ret = Some(tlEndTime)]

\* Block.show
show(st, i, startTime) ==
    LET tlEndTime == endTime(st)
        start == StartOf(st, startTime)
        time == scene.showTime
        s1 == tl_to(st, i, "rect", time, [strokeDashoffset |-> 0], At(start))
        s2 == tl_to(s1, i, "grp", (time * 66) \div 100, [fillOpacity |-> 1],
                    AtEnd(-((time * 75) \div 100)))
    IN [s2 EXCEPT !.blocks[i].isVisible = TRUE, !.ret = Some(tlEndTime)]

\* hide that returns the time it starts at
hide_returns_start(st, i, startTime) ==
    LET start == StartOf(st, startTime)
        time == scene.hideTime
        s1 == tl_to(st, i, "grp", (time * 66) \div 100, [fillOpacity |-> 0], At(start))
        dashOffset == get_perimeter(st.blocks[i])
        s2 == tl_to(s1, i, "rect", time, [strokeDashoffset |-> dashOffset],
                    AtEnd(-time))
    IN [s2 EXCEPT !.blocks[i].isVisible = FALSE, !.ret = Some(start)]

\* Block.hide
hide(st, i, startTime) ==
    LET tlEndTime == endTime(st)
        start == StartOf(st, startTime)
        time == scene.hideTime
        s1 == tl_to(st, i, "grp", (time * 66) \div 100, [fillOpacity |-> 0], At(start))
        dashOffset == get_perimeter(st.blocks[i])
        s2 == tl_to(s1, i, "rect", time, [strokeDashoffset |-> dashOffset],
                    AtEnd(-time))
    IN [s2 EXCEPT !.blocks[i].isVisible = FALSE, !.ret = Some(tlEndTime)]

\* Scene.add_idle
add_idle(st, time) ==
    LET tlEndTime == endTime(st)
        s1 == tl_to(st, 0, "idle", 0, [idle |-> time], AtEnd(time))
    IN [s1 EXCEPT !.ret = Some(tlEndTime)]

\* Scene.add_pause (the scene is not in debug mode, the constructor's
\* default: no pause indicator is built); returns nothing
add_pause(st) == tl_addPause(st)

\* fastforward that drops what is scheduled after the play head
fastforward_truncates(st) == [st EXCEPT !.tl.end = st.tl.time]

\* Scene.fastforward; returns nothing
fastforward(st) == tl_seek_end(st)

\* Block.add_link
add_link(st, i, link) == [st EXCEPT !.blocks[i].links = Append(@, link)]

\* Block.get_block_zorder, and Link.get_block_zorder that overrides it
get_block_zorder(cls) == IF cls = "ALink" THEN "Bottom" ELSE "Top"

\* generate_svg that adds every group at the end of the list of children
generate_svg_appended(svg, id, zorder) == Append(svg, id)

\* Block.generate_svg: where the group of the element is put among the
\* children of the SVG element, which are drawn from the first to the last
\* (the scene is not in debug mode: there are no guides, and the group of a
\* Bottom element is inserted before the sibling that follows the canvas)
generate_svg(svg, id, zorder) ==
    IF zorder = "Bottom"
    THEN LET canvas == CHOOSE k \in 1..Len(svg) : svg[k] = 0
         IN SubSeq(svg, 1, canvas) \o <<id>> \o SubSeq(svg, canvas + 1, Len(svg))
    ELSE Append(svg, id)

\* Block.constructor, with Scene.add_block and Block.generate_svg; cls is
\* the class of the object that is constructed
new_Block(st, cls, lines, x, y, w, h) ==
    LET id == Len(st.blocks) + 1
        b == [cls |-> cls, baseType |-> "Block", lines |-> lines,
              wStart |-> w, hStart |-> h, w |-> w, h |-> h,
              xStart |-> x, yStart |-> y, x |-> x, y |-> y,
              links |-> << >>, isVisible |-> FALSE,
              rect |-> [x |-> x - Half(w), y |-> y - Half(h),
                        width |-> w, height |-> h],
              exit |-> "", src |-> 0, dst |-> 0, dim |-> 0]
        s1 == [st EXCEPT !.blocks = Append(@, b),
                         !.svg = generate_svg(@, id, get_block_zorder(cls))]
    IN IF lines > 0
       THEN tl_to(s1, id, "text", 0, [force3D |-> TRUE], AtEnd(0))
       ELSE s1

\* exit_extent that reads the destination's edge of the exit side, not the
\* opposing one
exit_extent_same_edge(source, dest, exit, plugged) ==
    IF exit = "Top" THEN
        [bottom |-> get_edge(source, "Top"),
         top |-> IF plugged THEN get_edge(dest, "Top") ELSE get_edge(source, "Top"),
         left |-> 0, right |-> 0]
    ELSE IF exit = "Right" THEN
        [left |-> get_edge(source, "Right"),
         right |-> IF plugged THEN get_edge(dest, "Right") ELSE get_edge(source, "Right"),
         top |-> 0, bottom |-> 0]
    ELSE IF exit = "Bottom" THEN
        [top |-> get_edge(source, "Bottom"),
         bottom |-> IF plugged THEN get_edge(dest, "Bottom") ELSE get_edge(source, "Bottom"),
         left |-> 0, right |-> 0]
    ELSE
        [right |-> get_edge(source, "Left"),
         left |-> IF plugged THEN get_edge(dest, "Left") ELSE get_edge(source, "Left"),
         top |-> 0, bottom |-> 0]

\* Link.constructor: "Determine block extents in the direction of travel"
exit_extent(source, dest, exit, plugged) ==
    IF exit = "Top" THEN
        [bottom |-> get_edge(source, "Top"),
         top |-> IF plugged THEN get_edge(dest, "Bottom") ELSE get_edge(source, "Top"),
         left |-> 0, right |-> 0]
    ELSE IF exit = "Right" THEN
        [left |-> get_edge(source, "Right"),
         right |-> IF plugged THEN get_edge(dest, "Left") ELSE get_edge(source, "Right"),
         top |-> 0, bottom |-> 0]
    ELSE IF exit = "Bottom" THEN
        [top |-> get_edge(source, "Bottom"),
         bottom |-> IF plugged THEN get_edge(dest, "Top") ELSE get_edge(source, "Bottom"),
         left |-> 0, right |-> 0]
    ELSE
        [right |-> get_edge(source, "Left"),
         left |-> IF plugged THEN get_edge(dest, "Right") ELSE get_edge(source, "Left"),
         top |-> 0, bottom |-> 0]

\* Link.constructor: "Determine block extents in the other direction"
cross_extent(e, source, exit, dim) ==
    IF exit = "Top" \/ exit = "Bottom"
    THEN [e EXCEPT !.left = source.x - Half(dim),
                   !.right = source.x - Half(dim) + dim]
    ELSE [e EXCEPT !.top = source.y - Half(dim),
                   !.bottom = source.y - Half(dim) + dim]

\* register_link that registers the link with its destination as well
register_link_both(st, src, dst, id) == add_link(add_link(st, src, id), dst, id)

\* Link.constructor: this.src.add_link(this)
register_link(st, src, dst, id) == add_link(st, src, id)

\* Link.constructor: the fields set after super(scene, null, x, y, w, h, cls)
set_link_fields(st, id, src, dst, exit, dim) ==
    [st EXCEPT !.blocks[id].cls = "ALink",
               !.blocks[id].exit = exit,
               !.blocks[id].src = src,
               !.blocks[id].dst = dst,
               !.blocks[id].dim = dim,
               !.blocks[id].baseType = "Link"]

\* Link.constructor: the tween that makes an unplugged link opaque at once
unplugged_opacity(st, id, plugged) ==
    IF ~plugged
    THEN tl_to(st, id, "grp", 0, [fillOpacity |-> 1], AtEnd(0))
    ELSE st

\* Link.constructor
new_Link(st, src, dst, exit, dim, plugged) ==
    LET e == cross_extent(exit_extent(st.blocks[src], st.blocks[dst], exit, plugged),
                          st.blocks[src], exit, dim)
        w == e.right - e.left
        h == e.bottom - e.top
        x == e.left + Half(w)
        y == e.top + Half(h)
        id == Len(st.blocks) + 1
    IN unplugged_opacity(
           register_link(
               set_link_fields(new_Block(st, "ALink", 0, x, y, w, h), id, src, dst, exit, dim),
               src, dst, id),
           id, plugged)

\* Scene.configure: every duration params names is taken over
configure(sc, params) ==
    [k \in DOMAIN sc |-> IF k \in DOMAIN params THEN params[k] ELSE sc[k]]

\* Scene.configure: if (params.loop != undefined), which is so for true and
\* for false
configure_loop(t, params) ==
    IF "loop" \in DOMAIN params THEN tl_eventCallback(t) ELSE t

\* Scene.resume_callback (the scene is not in debug mode)
resume_callback(sc) == [sc EXCEPT !.isPaused = TRUE]

\* Scene.complete_callback
complete_callback(t) == tl_restart(t)

\* handleEvent that pauses a timeline that plays and resumes one that is
\* paused
handleEvent_toggles(w, event) ==
    IF event = "keydown"
    THEN [scene |-> [w.scene EXCEPT !.isPaused = FALSE],
          tl |-> [w.tl EXCEPT !.paused = ~@]]
    ELSE w

\* Scene.handleEvent, on w = [scene, tl] (the scene is not in debug mode)
handleEvent(w, event) ==
    IF event = "keydown" /\ w.scene.isPaused
    THEN [scene |-> [w.scene EXCEPT !.isPaused = FALSE], tl |-> tl_play(w.tl)]
    ELSE w

\* a frame of playback: the timeline plays on; at a pause point it calls
\* resume_callback, at its end its onComplete callback, if it has one
render(w) ==
    IF tl_advance(w.tl).paused
    THEN [scene |-> resume_callback(w.scene), tl |-> tl_advance(w.tl),
          completed |-> FALSE, restarted |-> FALSE]
    ELSE IF w.tl.onComplete
    THEN [scene |-> w.scene, tl |-> complete_callback(tl_advance(w.tl)),
          completed |-> TRUE, restarted |-> TRUE]
    ELSE [scene |-> w.scene, tl |-> tl_advance(w.tl),
          completed |-> TRUE, restarted |-> FALSE]

(***************************************************************************)
(* Position.  A JavaScript value that Position handles is a number,        *)
(* undefined or NaN, a property that a registry inherits from              *)
(* Object.prototype, or the string that + makes of such a property; Thrown *)
(* stands for a call that threw.  A string is the sequence of its          *)
(* characters, a number literal n is 4 * n quarter pixels.                 *)
(***************************************************************************)
Num(n) == [t |-> "number", v |-> n]
Undefined == [t |-> "undefined", v |-> 0]
NaN == [t |-> "NaN", v |-> 0]
Inherited == [t |-> "object", v |-> 0]
Concatenated == [t |-> "string", v |-> 0]
Thrown == [t |-> "thrown", v |-> 0]

\* format: string | number
NumberFormat(n) == [isNumber |-> TRUE, n |-> n, str |-> << >>]
StringFormat(str) == [isNumber |-> FALSE, n |-> 0, str |-> str]

DigitChars == <<"0", "1", "2", "3", "4", "5", "6", "7", "8", "9">>
Digits == { DigitChars[k] : k \in 1..Len(DigitChars) }
Letters ==
    {"a", "b", "c", "d", "e", "f", "g", "h", "i", "j", "k", "l", "m",
     "n", "o", "p", "q", "r", "s", "t", "u", "v", "w", "x", "y", "z",
     "A", "B", "C", "D", "E", "F", "G", "H", "I", "J", "K", "L", "M",
     "N", "O", "P", "Q", "R", "S", "T", "U", "V", "W", "X", "Y", "Z"}
Whitespace == {" "}

\* token.match(/^\d+$/)
IsDigits(token) ==
    Len(token) >= 1 /\ \A k \in 1..Len(token) : token[k] \in Digits

\* token.match(/^\d+%$/)
IsPercent(token) ==
    /\ Len(token) >= 2
    /\ token[Len(token)] = "%"
    /\ IsDigits(SubSeq(token, 1, Len(token) - 1))

\* name.match(/^[A-Za-z][A-Za-z0-9_]*$/)
IsName(name) ==
    /\ Len(name) >= 1
    /\ name[1] \in Letters
    /\ \A k \in 2..Len(name) : name[k] \in Letters \cup Digits \cup {"_"}

\* the value of a string of decimal digits
RECURSIVE Decimal(_)
Decimal(digits) ==
    IF digits = << >> THEN 0
    ELSE 10 * Decimal(SubSeq(digits, 1, Len(digits) - 1))
         + (CHOOSE k \in 1..Len(DigitChars) : DigitChars[k] = digits[Len(digits)]) - 1

\* Number(token), in quarter pixels
Number(token) == 4 * Decimal(token)

\* format.split(/\s+/): the pieces between the runs of whitespace; the
\* piece before a leading run and the piece after a trailing run are empty
\* strings, and a string without whitespace is its only piece
RECURSIVE split_from(_, _, _, _)
split_from(str, k, piece, pieces) ==
    IF k > Len(str) THEN Append(pieces, piece)
    ELSE IF str[k] \in Whitespace
    THEN IF k > 1 /\ str[k - 1] \in Whitespace
         THEN split_from(str, k + 1, piece, pieces)
         ELSE split_from(str, k + 1, << >>, Append(pieces, piece))
    ELSE split_from(str, k + 1, Append(piece, str[k]), pieces)

split(str) == split_from(str, 1, << >>, << >>)

\* the registries are object literals ({}): besides their own keys they
\* have the properties of Object.prototype, of which valueOf stands for all
ObjectPrototypeKeys == { <<"v", "a", "l", "u", "e", "O", "f">> }

\* name in this.constants and the like
has(map, name) == name \in DOMAIN map \/ name \in ObjectPrototypeKeys

\* this.constants[name] and the like: undefined for a name that is neither
\* a key nor inherited
lookup(map, name) ==
    IF name \in DOMAIN map THEN map[name]
    ELSE IF name \in ObjectPrototypeKeys THEN Inherited
    ELSE Undefined

\* get_constant that throws for a name that is not a constant
get_constant_checked(sc, name) ==
    IF name \in DOMAIN sc.constants THEN sc.constants[name] ELSE Thrown

\* Scene.get_constant / get_hguide / get_vguide
get_constant(sc, name) == lookup(sc.constants, name)
get_hguide(sc, name) == lookup(sc.hguides, name)
get_vguide(sc, name) == lookup(sc.vguides, name)

\* guide = scene.get_*guide(token); if (guide === undefined) guide =
\* scene.get_constant(token)
guide_or_constant(guide, sc, token) ==
    IF guide.t = "undefined" THEN get_constant(sc, token) ELSE guide

\* parse_value that looks an x up among the horizontal guides and a y among
\* the vertical ones
parse_value_guides_swapped(sc, axis, token) ==
    IF IsDigits(token) THEN Num(Number(token))
    ELSE IF IsPercent(token) THEN
        IF axis = "x"
        THEN Num((sc.width * Decimal(SubSeq(token, 1, Len(token) - 1))) \div 100)
        ELSE IF axis = "y"
        THEN Num((sc.height * Decimal(SubSeq(token, 1, Len(token) - 1))) \div 100)
        ELSE Thrown
    ELSE IF axis = "x" THEN guide_or_constant(get_hguide(sc, token), sc, token)
    ELSE IF axis = "y" THEN guide_or_constant(get_vguide(sc, token), sc, token)
    ELSE get_constant(sc, token)

\* parse_value
parse_value(sc, axis, token) ==
    IF IsDigits(token) THEN Num(Number(token))
    ELSE IF IsPercent(token) THEN
        IF axis = "x"
        THEN Num((sc.width * Decimal(SubSeq(token, 1, Len(token) - 1))) \div 100)
        ELSE IF axis = "y"
        THEN Num((sc.height * Decimal(SubSeq(token, 1, Len(token) - 1))) \div 100)
        ELSE Thrown
    ELSE IF axis = "x" THEN guide_or_constant(get_vguide(sc, token), sc, token)
    ELSE IF axis = "y" THEN guide_or_constant(get_hguide(sc, token), sc, token)
    ELSE get_constant(sc, token)

\* parse_operator: the operator, or Thrown
parse_operator(token) ==
    IF token = <<"+">> THEN [t |-> "+", v |-> 0]
    ELSE IF token = <<"-">> THEN [t |-> "-", v |-> 0]
    ELSE Thrown

\* op(pos, val): a + b or a - b on JavaScript values (+ concatenates when
\* an operand is a function or a string)
apply(op, pos, val) ==
    IF pos.t = "number" /\ val.t = "number"
    THEN IF op.t = "+" THEN Num(pos.v + val.v) ELSE Num(pos.v - val.v)
    ELSE IF op.t = "+" /\ {pos.t, val.t} \cap {"object", "string"} # {}
    THEN Concatenated
    ELSE NaN

\* Position_from that evaluates what follows an operator before it applies
\* the operator
RECURSIVE Position_from_right(_, _, _, _, _)
Position_from_right(sc, axis, tokens, i, pos) ==
    IF i >= Len(tokens) THEN pos
    ELSE IF parse_operator(tokens[i + 1]).t = "thrown" THEN Thrown
    ELSE IF i + 2 > Len(tokens) THEN Thrown
    ELSE IF parse_value(sc, axis, tokens[i + 2]).t \in {"thrown", "undefined"}
    THEN Thrown
    ELSE IF Position_from_right(sc, axis, tokens, i + 2,
                                parse_value(sc, axis, tokens[i + 2])).t = "thrown"
    THEN Thrown
    ELSE apply(parse_operator(tokens[i + 1]), pos,
               Position_from_right(sc, axis, tokens, i + 2,
                                   parse_value(sc, axis, tokens[i + 2])))

\* Position: the loop over the operator and value tokens, from the code's
\* tokens[i], which is tokens[i + 1] here (the code's tokens[i + 1] past the
\* end is undefined, and parse_value throws on it)
RECURSIVE Position_from(_, _, _, _, _)
Position_from(sc, axis, tokens, i, pos) ==
    IF i >= Len(tokens) THEN pos
    ELSE IF parse_operator(tokens[i + 1]).t = "thrown" THEN Thrown
    ELSE IF i + 2 > Len(tokens) THEN Thrown
    ELSE IF parse_value(sc, axis, tokens[i + 2]).t \in {"thrown", "undefined"}
    THEN Thrown
    ELSE Position_from(sc, axis, tokens, i + 2,
                       apply(parse_operator(tokens[i + 1]), pos,
                             parse_value(sc, axis, tokens[i + 2])))

\* Position that passes a number through before it looks at the axis
Position_number_first(sc, axis, format) ==
    IF format.isNumber THEN Num(format.n)
    ELSE IF axis \notin {"x", "y", "k"} THEN Thrown
    ELSE IF Len(split(format.str)) = 0 THEN Thrown
    ELSE IF parse_value(sc, axis, split(format.str)[1]).t = "thrown" THEN Thrown
    ELSE Position_from(sc, axis, split(format.str), 1,
                       parse_value(sc, axis, split(format.str)[1]))

\* Position
Position(sc, axis, format) ==
    IF axis \notin {"x", "y", "k"} THEN Thrown
    ELSE IF format.isNumber THEN Num(format.n)
    ELSE IF Len(split(format.str)) = 0 THEN Thrown
    ELSE IF parse_value(sc, axis, split(format.str)[1]).t = "thrown" THEN Thrown
    ELSE Position_from(sc, axis, split(format.str), 1,
                       parse_value(sc, axis, split(format.str)[1]))

\* map[name] = value
store(map, name, value) ==
    [n \in DOMAIN map \cup {name} |-> IF n = name THEN value ELSE map[n]]

\* add_constant that looks for the name among the constants only
add_constant_own_namespace(sc, name, value) ==
    IF ~IsName(name) THEN [scene |-> sc, thrown |-> TRUE]
    ELSE IF has(sc.constants, name)
    THEN [scene |-> sc, thrown |-> TRUE]
    ELSE IF Position(sc, "k", value).t = "thrown"
    THEN [scene |-> sc, thrown |-> TRUE]
    ELSE [scene |-> [sc EXCEPT !.constants = store(@, name, Position(sc, "k", value))],
          thrown |-> FALSE]

\* Scene.add_constant: the scene it leaves, and whether it threw
add_constant(sc, name, value) ==
    IF ~IsName(name) THEN [scene |-> sc, thrown |-> TRUE]
    ELSE IF has(sc.constants, name) \/ has(sc.hguides, name)
            \/ has(sc.vguides, name)
    THEN [scene |-> sc, thrown |-> TRUE]
    ELSE IF Position(sc, "k", value).t = "thrown"
    THEN [scene |-> sc, thrown |-> TRUE]
    ELSE [scene |-> [sc EXCEPT !.constants = store(@, name, Position(sc, "k", value))],
          thrown |-> FALSE]

\* add_hguide that does not look whether the name is taken
add_hguide_overwrites(sc, name, loc) ==
    IF ~IsName(name) THEN [scene |-> sc, thrown |-> TRUE]
    ELSE IF Position(sc, "y", loc).t = "thrown"
    THEN [scene |-> sc, thrown |-> TRUE]
    ELSE [scene |-> [sc EXCEPT !.hguides = store(@, name, Position(sc, "y", loc))],
          thrown |-> FALSE]

\* Scene.add_hguide (the scene is not in debug mode: no guide is drawn)
add_hguide(sc, name, loc) ==
    IF ~IsName(name) THEN [scene |-> sc, thrown |-> TRUE]
    ELSE IF has(sc.constants, name) \/ has(sc.hguides, name)
    THEN [scene |-> sc, thrown |-> TRUE]
    ELSE IF Position(sc, "y", loc).t = "thrown"
    THEN [scene |-> sc, thrown |-> TRUE]
    ELSE [scene |-> [sc EXCEPT !.hguides = store(@, name, Position(sc, "y", loc))],
          thrown |-> FALSE]

\* add_vguide that looks for the name among the vertical guides only
add_vguide_own_namespace(sc, name, loc) ==
    IF ~IsName(name) THEN [scene |-> sc, thrown |-> TRUE]
    ELSE IF has(sc.vguides, name)
    THEN [scene |-> sc, thrown |-> TRUE]
    ELSE IF Position(sc, "x", loc).t = "thrown"
    THEN [scene |-> sc, thrown |-> TRUE]
    ELSE [scene |-> [sc EXCEPT !.vguides = store(@, name, Position(sc, "x", loc))],
          thrown |-> FALSE]

\* Scene.add_vguide (the scene is not in debug mode: no guide is drawn)
add_vguide(sc, name, loc) ==
    IF ~IsName(name) THEN [scene |-> sc, thrown |-> TRUE]
    ELSE IF has(sc.constants, name) \/ has(sc.vguides, name)
    THEN [scene |-> sc, thrown |-> TRUE]
    ELSE IF Position(sc, "x", loc).t = "thrown"
    THEN [scene |-> sc, thrown |-> TRUE]
    ELSE [scene |-> [sc EXCEPT !.vguides = store(@, name, Position(sc, "x", loc))],
          thrown |-> FALSE]

(***************************************************************************)
(* The state machine.  Init is the Scene after its constructor.  Each      *)
(* action is one call of the API on the state st0; Done records the call   *)
(* and installs the state the call leaves.  Of the call before it the      *)
(* record keeps the arguments and the geometry its element had before it.  *)
(***************************************************************************)
\* get_x(), get_y(), get_w(), get_h() of an element
Geometry(b) == [x |-> b.x, y |-> b.y, w |-> b.w, h |-> b.h]

NoGeometry == [x |-> 0, y |-> 0, w |-> 0, h |-> 0]

st0 ==
    [blocks |-> blocks, tl |-> tl, added |-> << >>, ret |-> None,
     svg |-> scene.svg]

NoCall ==
    [op |-> "Scene", target |-> 0, arg |-> 0, dir |-> "", flag |-> FALSE,
     start |-> None, ret |-> None, endBefore |-> 0, pre |-> << >>,
     added |-> << >>, n |-> 0,
     prev |-> [op |-> "", target |-> 0, arg |-> 0, dir |-> "", flag |-> FALSE,
               start |-> None, endBefore |-> 0, geometry |-> NoGeometry]]

Init ==
    /\ scene = [width |-> 960 * 4, height |-> 540 * 4,
                showTime |-> 100, hideTime |-> 100, moveTime |-> 100,
                morphTime |-> 100, linkTime |-> 100,
                hguides |-> << >>, vguides |-> << >>, constants |-> << >>,
                isPaused |-> FALSE, svg |-> <<0>>]
    /\ blocks = << >>
    /\ tl = [end |-> 0, time |-> 0, pauses |-> {}, byEnd |-> {}, byStart |-> {},
             paused |-> FALSE, passed |-> {}, onComplete |-> FALSE]
    /\ call = NoCall

Done(st, op, target, arg, dir, flag, start, isAnim) ==
    /\ blocks' = st.blocks
    /\ tl' = st.tl
    /\ call' = [op |-> op, target |-> target, arg |-> arg, dir |-> dir,
                flag |-> flag, start |-> start, ret |-> st.ret,
                endBefore |-> tl.end, pre |-> blocks, added |-> st.added,
                n |-> IF isAnim THEN call.n + 1 ELSE call.n,
                prev |-> [op |-> call.op, target |-> call.target,
                          arg |-> call.arg, dir |-> call.dir,
                          flag |-> call.flag, start |-> call.start,
                          endBefore |-> call.endBefore,
                          geometry |-> IF call.target \in 1..Len(call.pre)
                                       THEN Geometry(call.pre[call.target])
                                       ELSE NoGeometry]]
    /\ scene' = [scene EXCEPT !.svg = st.svg]

\* the start times a caller passes: none, or the value the last call returned
StartTimes == {None} \cup {call.ret}

CanCall == call.n < MaxCalls

Configure ==
    /\ call.op = "Scene"
    /\ \E params \in ConfigParams :
          /\ scene' = configure(scene, params)
          /\ tl' = configure_loop(tl, params)
          /\ call' = [call EXCEPT !.op = "configure"]
    /\ UNCHANGED blocks

NewBlock ==
    /\ Cardinality(BlockIds(blocks)) < MaxBlocks
    /\ LET a == BlockArgs[Cardinality(BlockIds(blocks)) + 1]
       IN Done(new_Block(st0, "ABlock", a.lines, a.x, a.y, a.w, a.h),
               "Block", Len(blocks) + 1, 0, "", FALSE, None, FALSE)

NewLink ==
    /\ Cardinality(LinkIds(blocks)) < MaxLinks
    /\ \E src \in 1..Len(blocks), dst \in 1..Len(blocks), exit \in Edges,
          dim \in LinkDims, plugged \in BOOLEAN :
          /\ src # dst
          /\ Done(new_Link(st0, src, dst, exit, dim, plugged),
                  "Link", Len(blocks) + 1, dim, exit, plugged, None, FALSE)

Show ==
    /\ CanCall
    /\ \E i \in 1..Len(blocks), s \in StartTimes :
          Done(show(st0, i, s), "show", i, 0, "", FALSE, s, TRUE)

Hide ==
    /\ CanCall
    /\ \E i \in 1..Len(blocks), s \in StartTimes :
          Done(hide(st0, i, s), "hide", i, 0, "", FALSE, s, TRUE)

MoveByX ==
    /\ CanCall
    /\ \E i \in BlockIds(blocks), offset \in MoveOffsets, s \in StartTimes :
          Done(move_by_x(st0, i, offset, s, FALSE),
               "move_by_x", i, offset, "", FALSE, s, TRUE)

MoveByY ==
    /\ CanCall
    /\ \E i \in BlockIds(blocks), offset \in MoveOffsets, s \in StartTimes :
          Done(move_by_y(st0, i, offset, s, FALSE),
               "move_by_y", i, offset, "", FALSE, s, TRUE)

MoveToX ==
    /\ CanCall
    /\ \E i \in BlockIds(blocks), x \in MoveTargets, s \in StartTimes :
          Done(move_to_x(st0, i, x, s), "move_to_x", i, x, "", FALSE, s, TRUE)

MoveToY ==
    /\ CanCall
    /\ \E i \in BlockIds(blocks), y \in MoveTargets, s \in StartTimes :
          Done(move_to_y(st0, i, y, s), "move_to_y", i, y, "", FALSE, s, TRUE)

ChangeWidth ==
    /\ CanCall
    /\ \E i \in BlockIds(blocks), w \in Sizes, d \in WidthDirs, s \in StartTimes :
          Done(change_width(st0, i, w, d, s), "change_width", i, w, d, FALSE, s, TRUE)

ChangeHeight ==
    /\ CanCall
    /\ \E i \in BlockIds(blocks), h \in Sizes, d \in HeightDirs, s \in StartTimes :
          Done(change_height(st0, i, h, d, s), "change_height", i, h, d, FALSE, s, TRUE)

Plug ==
    /\ CanCall
    /\ \E l \in LinkIds(blocks), s \in StartTimes :
          Done(plug(st0, l, s), "plug", l, 0, "", FALSE, s, TRUE)

Unplug ==
    /\ CanCall
    /\ \E l \in LinkIds(blocks), s \in StartTimes :
          Done(unplug(st0, l, s), "unplug", l, 0, "", FALSE, s, TRUE)

Update ==
    /\ CanCall
    /\ \E l \in LinkIds(blocks), s \in StartTimes :
          Done(update(st0, l, s), "update", l, 0, "", FALSE, s, TRUE)

AddIdle ==
    /\ CanCall
    /\ \E t \in IdleTimes :
          Done(add_idle(st0, t), "add_idle", 0, t, "", FALSE, None, TRUE)

AddPause ==
    /\ CanCall
    /\ Done(add_pause(st0), "add_pause", 0, 0, "", FALSE, None, TRUE)

Fastforward ==
    /\ CanCall
    /\ Done(fastforward(st0), "fastforward", 0, 0, "", FALSE, None, TRUE)

Next ==
    \/ Configure
    \/ NewBlock
    \/ NewLink
    \/ Show
    \/ Hide
    \/ MoveByX
    \/ MoveByY
    \/ MoveToX
    \/ MoveToY
    \/ ChangeWidth
    \/ ChangeHeight
    \/ Plug
    \/ Unplug
    \/ Update
    \/ AddIdle
    \/ AddPause
    \/ Fastforward

Spec == Init /\ [][Next]_vars

(***************************************************************************)
(* Sequences of calls on plain Blocks: one call more than above, each at   *)
(* the end of the timeline, at the time the last call returned, or at the  *)
(* absolute time 0.                                                        *)
(***************************************************************************)
SeqStartTimes == {None, Some(0)} \cup {call.ret}

CanSeq == call.n < MaxSeq

SeqShow ==
    /\ CanSeq
    /\ \E i \in BlockIds(blocks), s \in SeqStartTimes :
          Done(show(st0, i, s), "show", i, 0, "", FALSE, s, TRUE)

SeqHide ==
    /\ CanSeq
    /\ \E i \in BlockIds(blocks), s \in SeqStartTimes :
          Done(hide(st0, i, s), "hide", i, 0, "", FALSE, s, TRUE)

SeqMoveByX ==
    /\ CanSeq
    /\ \E i \in BlockIds(blocks), offset \in MoveOffsets, s \in SeqStartTimes :
          Done(move_by_x(st0, i, offset, s, FALSE),
               "move_by_x", i, offset, "", FALSE, s, TRUE)

SeqMoveToY ==
    /\ CanSeq
    /\ \E i \in BlockIds(blocks), y \in MoveTargets, s \in SeqStartTimes :
          Done(move_to_y(st0, i, y, s), "move_to_y", i, y, "", FALSE, s, TRUE)

SeqChangeWidth ==
    /\ CanSeq
    /\ \E i \in BlockIds(blocks), w \in Sizes, d \in WidthDirs, s \in SeqStartTimes :
          Done(change_width(st0, i, w, d, s), "change_width", i, w, d, FALSE, s, TRUE)

SeqChangeHeight ==
    /\ CanSeq
    /\ \E i \in BlockIds(blocks), h \in Sizes, d \in HeightDirs, s \in SeqStartTimes :
          Done(change_height(st0, i, h, d, s), "change_height", i, h, d, FALSE, s, TRUE)

NextSeq ==
    \/ Configure
    \/ NewBlock
    \/ SeqShow
    \/ SeqHide
    \/ SeqMoveByX
    \/ SeqMoveToY
    \/ SeqChangeWidth
    \/ SeqChangeHeight

SpecSeq == Init /\ [][NextSeq]_vars

(***************************************************************************)
(* The setup of a scene: guides and constants are registered and position  *)
(* expressions evaluated.  An expression is written as its tokens joined   *)
(* by single spaces; the call record keeps the tokens it was written from. *)
(***************************************************************************)
RECURSIVE Join(_)
Join(tokens) ==
    IF tokens = << >> THEN << >>
    ELSE IF Len(tokens) = 1 THEN tokens[1]
    ELSE tokens[1] \o <<" ">> \o Join(Tail(tokens))

Plus == <<"+">>
Minus == <<"-">>
ValueTokens == { <<"5">>, <<"2", "0">>, <<"a">>, <<"5", "0", "%">> }
ShortValueTokens == { <<"5">>, <<"a">> }
OperatorTokens == {Plus, Minus}

\* value (operator value)*, up to two operators
Expressions ==
    { <<v>> : v \in ValueTokens }
    \cup { <<v0, o1, v1>> : v0 \in ValueTokens, o1 \in OperatorTokens,
                            v1 \in ValueTokens }
    \cup { <<v0, o1, v1, o2, v2>> :
              v0 \in ValueTokens, o1 \in OperatorTokens, v1 \in ShortValueTokens,
              o2 \in OperatorTokens, v2 \in ShortValueTokens }

\* expressions of other shapes: an unknown name, a name every object
\* inherits, a literal with a sign, a missing or unknown operator, a missing
\* value, the empty string, leading whitespace
OtherExpressions ==
    { << <<"z", "z">> >>,
      << <<"z", "z">>, Plus, <<"5">> >>,
      << <<"5">>, Plus, <<"z", "z">> >>,
      << <<"v", "a", "l", "u", "e", "O", "f">> >>,
      << <<"-", "5">> >>,
      << <<"-", "1", "0", "%">> >>,
      << <<"5">>, Plus, <<"-", "5">> >>,
      << <<"5">>, <<"*">>, <<"5">> >>,
      << <<"5">>, <<"5">> >>,
      << <<"5">>, Plus >>,
      << >>,
      << << >>, <<"5">> >> }

Axes == {"x", "y", "k", "z"}
RegNames == { <<"a">>, <<"b">>, <<"1", "a">>, <<"v", "a", "l", "u", "e", "O", "f">> }
GetNames == RegNames \cup { <<"z", "z">> }
RegFormats ==
    { NumberFormat(80),
      StringFormat(Join(<< <<"a">>, Plus, <<"5">> >>)),
      StringFormat(Join(<< <<"5", "0", "%">> >>)),
      StringFormat(Join(<< <<"z", "z">> >>)) }

\* Position and the getters change nothing: a run is followed up to its
\* first evaluation or lookup
Lookups == {"Position", "get_constant", "get_hguide", "get_vguide"}

CanAdd == call.n < MaxAdds /\ call.op \notin Lookups

\* the record of a setup call, and the scene it leaves
Setup(op, name, axis, format, tokens, result, thrown, sc, counts) ==
    /\ scene' = sc
    /\ call' = [op |-> op, name |-> name, axis |-> axis, format |-> format,
                tokens |-> tokens, result |-> result, thrown |-> thrown,
                pre |-> scene, n |-> IF counts THEN call.n + 1 ELSE call.n]
    /\ UNCHANGED <<blocks, tl>>

AddConstant ==
    /\ CanAdd
    /\ \E name \in RegNames, value \in RegFormats :
          Setup("add_constant", name, "k", value, << >>,
                Position(scene, "k", value),
                add_constant(scene, name, value).thrown,
                add_constant(scene, name, value).scene, TRUE)

AddHGuide ==
    /\ CanAdd
    /\ \E name \in RegNames, loc \in RegFormats :
          Setup("add_hguide", name, "y", loc, << >>,
                Position(scene, "y", loc),
                add_hguide(scene, name, loc).thrown,
                add_hguide(scene, name, loc).scene, TRUE)

AddVGuide ==
    /\ CanAdd
    /\ \E name \in RegNames, loc \in RegFormats :
          Setup("add_vguide", name, "x", loc, << >>,
                Position(scene, "x", loc),
                add_vguide(scene, name, loc).thrown,
                add_vguide(scene, name, loc).scene, TRUE)

\* the record of an evaluation
Evaluated(axis, format, tokens, result) ==
    Setup("Position", << >>, axis, format, tokens, result,
          result.t = "thrown", scene, FALSE)

\* Position(scene, axis, format) with a string
EvalString ==
    /\ call.op \notin Lookups
    /\ \E axis \in Axes, tokens \in Expressions \cup OtherExpressions :
          Evaluated(axis, StringFormat(Join(tokens)), tokens,
                    Position(scene, axis, StringFormat(Join(tokens))))

\* Position(scene, axis, format) with a number
EvalNumber ==
    /\ call.op \notin Lookups
    /\ \E axis \in Axes, n \in {80} :
          Evaluated(axis, NumberFormat(n), << >>,
                    Position(scene, axis, NumberFormat(n)))

\* the record of a lookup
Got(op, axis, name, result) ==
    Setup(op, name, axis, StringFormat(name), << >>, result,
          result.t = "thrown", scene, FALSE)

GetConstant ==
    /\ call.op \notin Lookups
    /\ \E name \in GetNames :
          Got("get_constant", "k", name, get_constant(scene, name))

GetHGuide ==
    /\ call.op \notin Lookups
    /\ \E name \in GetNames :
          Got("get_hguide", "y", name, get_hguide(scene, name))

GetVGuide ==
    /\ call.op \notin Lookups
    /\ \E name \in GetNames :
          Got("get_vguide", "x", name, get_vguide(scene, name))

NextSetup ==
    \/ AddConstant
    \/ AddHGuide
    \/ AddVGuide
    \/ EvalString
    \/ EvalNumber
    \/ GetConstant
    \/ GetHGuide
    \/ GetVGuide

SpecSetup == Init /\ [][NextSetup]_vars

(***************************************************************************)
(* A script and its playback.  The script configures the scene, makes a    *)
(* Block and calls show, add_idle, add_pause and fastforward; it runs to   *)
(* its end before the first frame of the timeline is rendered.  Then the   *)
(* timeline plays, frame by frame, and keys are pressed.  The call record  *)
(* keeps its count of the calls, keys and restarts, what configure was     *)
(* told of loop, the times add_pause was called at, the time playback set  *)
(* out from and the pause points a key was pressed at.                     *)
(***************************************************************************)
LoopParams == { [loop |-> TRUE], [loop |-> FALSE], [moveTime |-> 300] }
Events == {"keydown"}
PlaybackOps == {"render", "handleEvent"}

NoPlay ==
    [n |-> 0, keys |-> 0, loops |-> 0, loop |-> "undefined", checkpoints |-> {},
     from |-> 0, released |-> {}, finished |-> FALSE]

Play == IF call.op = "Scene" THEN NoPlay ELSE call.play

\* the record of a call of the script or of a step of the playback
Played(op, w, bs, play, completed, restarted) ==
    /\ scene' = w.scene
    /\ tl' = w.tl
    /\ blocks' = bs
    /\ call' = [op |-> op, play |-> play,
                pre |-> [scene |-> scene, tl |-> tl, blocks |-> blocks],
                completed |-> completed, restarted |-> restarted]

\* a call of the script, which leaves st
Scripted(op, st, play) ==
    Played(op, [scene |-> [scene EXCEPT !.svg = st.svg], tl |-> st.tl], st.blocks,
           [play EXCEPT !.from = st.tl.time], FALSE, FALSE)

CanScript == call.op \notin PlaybackOps /\ Play.n < MaxScript

ScriptConfigure ==
    /\ call.op = "Scene"
    /\ \E params \in LoopParams :
          Played("configure",
                 [scene |-> configure(scene, params),
                  tl |-> configure_loop(tl, params)],
                 blocks,
                 [Play EXCEPT !.loop = IF "loop" \notin DOMAIN params THEN "undefined"
                                       ELSE IF params.loop THEN "true" ELSE "false"],
                 FALSE, FALSE)

ScriptNewBlock ==
    /\ CanScript
    /\ blocks = << >>
    /\ Scripted("Block",
                new_Block(st0, "ABlock", BlockArgs[1].lines, BlockArgs[1].x, BlockArgs[1].y,
                          BlockArgs[1].w, BlockArgs[1].h),
                Play)

ScriptShow ==
    /\ CanScript
    /\ \E i \in BlockIds(blocks) :
          Scripted("show", show(st0, i, None), [Play EXCEPT !.n = @ + 1])

ScriptAddIdle ==
    /\ CanScript
    /\ \E t \in IdleTimes :
          Scripted("add_idle", add_idle(st0, t), [Play EXCEPT !.n = @ + 1])

ScriptAddPause ==
    /\ CanScript
    /\ Scripted("add_pause", add_pause(st0),
                [Play EXCEPT !.n = @ + 1, !.checkpoints = @ \cup {tl.end}])

ScriptFastforward ==
    /\ CanScript
    /\ Scripted("fastforward", fastforward(st0), [Play EXCEPT !.n = @ + 1])

\* a frame is rendered: the timeline is playing and has not completed
Render ==
    /\ ~tl.paused
    /\ ~Play.finished
    /\ render([scene |-> scene, tl |-> tl]).restarted => Play.loops < MaxLoops
    /\ LET r == render([scene |-> scene, tl |-> tl])
       IN Played("render", [scene |-> r.scene, tl |-> r.tl], blocks,
                 IF r.restarted
                 THEN [Play EXCEPT !.loops = @ + 1, !.from = 0, !.released = {}]
                 ELSE [Play EXCEPT !.finished = r.completed],
                 r.completed, r.restarted)

\* a key is pressed: document.addEventListener('keydown', this)
Keydown ==
    /\ Play.keys < MaxKeys
    /\ \E event \in Events :
          Played("handleEvent", handleEvent([scene |-> scene, tl |-> tl], event),
                 blocks,
                 [Play EXCEPT !.keys = @ + 1,
                              !.released = IF tl.paused /\ tl.time \in Play.checkpoints
                                           THEN @ \cup {tl.time} ELSE @],
                 FALSE, FALSE)

NextPlay ==
    \/ ScriptConfigure
    \/ ScriptNewBlock
    \/ ScriptShow
    \/ ScriptAddIdle
    \/ ScriptAddPause
    \/ ScriptFastforward
    \/ Render
    \/ Keydown

SpecPlay == Init /\ [][NextPlay]_vars

(***************************************************************************)
(* The construction of a scene: Blocks and Links are made in any order, a  *)
(* Link from any element to any other, so that a Link can be the source of *)
(* a Link; then one animation call is made on any of the elements.         *)
(***************************************************************************)
CanBuild == Len(blocks) < MaxElements /\ call.n = 0

CanAnimate == call.n < MaxAnimations

BuildBlock ==
    /\ CanBuild
    /\ Cardinality(BlockIds(blocks)) < Len(BlockArgs)
    /\ LET a == BlockArgs[Cardinality(BlockIds(blocks)) + 1]
       IN Done(new_Block(st0, "ABlock", a.lines, a.x, a.y, a.w, a.h),
               "Block", Len(blocks) + 1, 0, "", FALSE, None, FALSE)

BuildLink ==
    /\ CanBuild
    /\ \E src \in 1..Len(blocks), dst \in 1..Len(blocks), exit \in Edges,
          dim \in LinkDims, plugged \in BOOLEAN :
          /\ src # dst
          /\ Done(new_Link(st0, src, dst, exit, dim, plugged),
                  "Link", Len(blocks) + 1, dim, exit, plugged, None, FALSE)

BuiltMoveByX ==
    /\ CanAnimate
    /\ \E i \in 1..Len(blocks), offset \in MoveOffsets :
          Done(move_by_x(st0, i, offset, None, FALSE),
               "move_by_x", i, offset, "", FALSE, None, TRUE)

BuiltMoveByY ==
    /\ CanAnimate
    /\ \E i \in 1..Len(blocks), offset \in MoveOffsets :
          Done(move_by_y(st0, i, offset, None, FALSE),
               "move_by_y", i, offset, "", FALSE, None, TRUE)

BuiltChangeWidth ==
    /\ CanAnimate
    /\ \E i \in 1..Len(blocks), w \in Sizes, d \in WidthDirs :
          Done(change_width(st0, i, w, d, None),
               "change_width", i, w, d, FALSE, None, TRUE)

BuiltChangeHeight ==
    /\ CanAnimate
    /\ \E i \in 1..Len(blocks), h \in Sizes, d \in HeightDirs :
          Done(change_height(st0, i, h, d, None),
               "change_height", i, h, d, FALSE, None, TRUE)

BuiltPlug ==
    /\ CanAnimate
    /\ \E l \in LinkIds(blocks) :
          Done(plug(st0, l, None), "plug", l, 0, "", FALSE, None, TRUE)

BuiltUnplug ==
    /\ CanAnimate
    /\ \E l \in LinkIds(blocks) :
          Done(unplug(st0, l, None), "unplug", l, 0, "", FALSE, None, TRUE)

BuiltUpdate ==
    /\ CanAnimate
    /\ \E l \in LinkIds(blocks) :
          Done(update(st0, l, None), "update", l, 0, "", FALSE, None, TRUE)

NextBuild ==
    \/ Configure
    \/ BuildBlock
    \/ BuildLink
    \/ BuiltMoveByX
    \/ BuiltMoveByY
    \/ BuiltChangeWidth
    \/ BuiltChangeHeight
    \/ BuiltPlug
    \/ BuiltUnplug
    \/ BuiltUpdate

SpecBuild == Init /\ [][NextBuild]_vars

(***************************************************************************)
(* Sanity of the units: every size stays even, so no Half truncated.       *)
(***************************************************************************)
HalvesExact ==
    \A i \in 1..Len(blocks) :
        /\ blocks[i].w % 2 = 0
        /\ blocks[i].h % 2 = 0
        /\ blocks[i].dim % 2 = 0

(***************************************************************************)
(* Vocabulary of the properties.                                           *)
(***************************************************************************)
Opposite(edge) ==
    IF edge = "Top" THEN "Bottom"
    ELSE IF edge = "Bottom" THEN "Top"
    ELSE IF edge = "Left" THEN "Right"
    ELSE "Left"

\* the edge of link l that lies at its source, and the one away from it
NearEdge(bs, l) == get_edge(bs[l], Opposite(bs[l].exit))
FarEdge(bs, l) == get_edge(bs[l], bs[l].exit)
\* the edges of the two blocks the link runs between
SrcEdge(bs, l) == get_edge(bs[bs[l].src], bs[l].exit)
DstEdge(bs, l) == get_edge(bs[bs[l].dst], Opposite(bs[l].exit))

Vertical(b) == b.exit \in {"Top", "Bottom"}
ExitSize(b) == IF Vertical(b) THEN b.h ELSE b.w
CrossSize(b) == IF Vertical(b) THEN b.w ELSE b.h
CrossCenter(b) == IF Vertical(b) THEN b.x ELSE b.y

\* link l runs from its source's exit edge to its destination's opposing edge
Spans(bs, l) == NearEdge(bs, l) = SrcEdge(bs, l) /\ FarEdge(bs, l) = DstEdge(bs, l)

\* the length link l has when it runs from its source to its destination
PlugLength(bs, l) ==
    IF bs[l].exit \in {"Right", "Bottom"}
    THEN DstEdge(bs, l) - SrcEdge(bs, l)
    ELSE SrcEdge(bs, l) - DstEdge(bs, l)

\* the links that existed before the call
OldLinks == LinkIds(call.pre)

\* the blocks that own link l, directly or through a chain of links
RECURSIVE Owners(_, _)
Owners(bs, l) ==
    IF bs[l].src = 0 THEN {}
    ELSE {bs[l].src} \cup Owners(bs, bs[l].src)

MoveOps == {"move_by_x", "move_by_y", "move_to_x", "move_to_y"}
ResizeOps == {"change_width", "change_height"}
SchedulingOps == MoveOps \cup ResizeOps \cup {"show", "hide", "plug", "unplug", "add_idle"}

\* the call was a move or a resize of a plain Block
BlockCall == call.op \in MoveOps \cup ResizeOps

TweensOf(l) == { k \in 1..Len(call.added) : call.added[k].target = l }

(***************************************************************************)
(* C1: immediately after link.plug() the Link runs along its exit axis     *)
(* from the source's exit edge to the destination's opposing edge, from    *)
(* every prior state, also when the link has to become shorter.  It is     *)
(* stated here for the prior states that leave no doubt: the link has a    *)
(* non-negative length and is attached at its source, and the destination  *)
(* lies on the exit side of the source.                                    *)
(***************************************************************************)
C1_PlugSpans ==
    (/\ call.op = "plug"
     /\ PlugLength(call.pre, call.target) >= 0
     /\ ExitSize(call.pre[call.target]) >= 0
     /\ NearEdge(call.pre, call.target) = SrcEdge(call.pre, call.target))
        => Spans(blocks, call.target)

(***************************************************************************)
(* C2: after a move or resize of a Link's source block the Link's          *)
(* source-side edge is at the source's exit edge and its far edge is where *)
(* it was before the call.                                                 *)
(***************************************************************************)
C2_SourceTracked ==
    BlockCall =>
        \A l \in OldLinks :
            call.pre[l].src = call.target =>
                /\ NearEdge(blocks, l) = SrcEdge(blocks, l)
                /\ FarEdge(blocks, l) = FarEdge(call.pre, l)

C2_Witness ==
    /\ call.op = "move_by_x"
    /\ \E l \in OldLinks :
          /\ call.pre[l].src = call.target
          /\ call.pre[l].exit = "Right"
          /\ NearEdge(blocks, l) # NearEdge(call.pre, l)
          /\ NearEdge(blocks, l) = SrcEdge(blocks, l)

(***************************************************************************)
(* C3: a Link that connects its two blocks stays connected to both after   *)
(* any move or resize of its source or of its destination.                 *)
(***************************************************************************)
C3_StaysConnected ==
    BlockCall =>
        \A l \in OldLinks :
            (call.target \in {call.pre[l].src, call.pre[l].dst} /\ Spans(call.pre, l))
                => Spans(blocks, l)

C5_UnplugIntoSource ==
    call.op = "unplug" =>
        /\ ExitSize(blocks[call.target]) = 0
        /\ NearEdge(blocks, call.target) = SrcEdge(blocks, call.target)
        /\ FarEdge(blocks, call.target) = SrcEdge(blocks, call.target)

(***************************************************************************)
(* C6: a Link constructed plugged runs from the source's exit edge to the  *)
(* destination's opposing edge; constructed unplugged it has exit-axis     *)
(* length 0 at the source's exit edge.  It is once in the source's list of *)
(* links and not in the destination's.                                     *)
(***************************************************************************)
Count(seq, v) == Cardinality({ k \in 1..Len(seq) : seq[k] = v })

C6_Constructed ==
    call.op = "Link" =>
        LET l == call.target
        IN /\ call.flag => Spans(blocks, l)
           /\ ~call.flag =>
                 /\ ExitSize(blocks[l]) = 0
                 /\ NearEdge(blocks, l) = SrcEdge(blocks, l)
                 /\ FarEdge(blocks, l) = SrcEdge(blocks, l)
           /\ Count(blocks[blocks[l].src].links, l) = 1
           /\ Count(blocks[blocks[l].dst].links, l) = 0

C6_Witness ==
    /\ call.op = "Link"
    /\ call.flag
    /\ ExitSize(blocks[call.target]) > 0
    /\ call.n > 0

(***************************************************************************)
(* C7: in every state a Link's cross-axis size is the dim it was           *)
(* constructed with and its cross-axis centre is its source's.             *)
(***************************************************************************)
C7_CrossAxis ==
    \A l \in LinkIds(blocks) :
        /\ CrossSize(blocks[l]) = blocks[l].dim
        /\ CrossCenter(blocks[l]) =
               (IF Vertical(blocks[l]) THEN blocks[blocks[l].src].x
                ELSE blocks[blocks[l].src].y)

C7_Witness ==
    /\ call.op \in {"move_by_x", "change_width"}
    /\ \E l \in OldLinks :
          /\ call.pre[l].src = call.target
          /\ Vertical(blocks[l])
          /\ blocks[l].x # call.pre[l].x

(***************************************************************************)
(* C8: change_width(w, dir) sets the width to w.  Growing Left or          *)
(* shrinking Right keeps the right edge; growing Right or shrinking Left   *)
(* keeps the left edge; Center keeps the centre.  y and the height are not *)
(* changed, and the centre moves in the named direction.                   *)
(***************************************************************************)
C8_ChangeWidth ==
    call.op = "change_width" =>
        LET old == call.pre[call.target]
            new == blocks[call.target]
            grows == call.arg > old.w
            shrinks == call.arg < old.w
        IN /\ new.w = call.arg
           /\ new.y = old.y /\ new.h = old.h
           /\ ((grows /\ call.dir = "Left") \/ (shrinks /\ call.dir = "Right"))
                 => get_edge(new, "Right") = get_edge(old, "Right")
           /\ ((grows /\ call.dir = "Right") \/ (shrinks /\ call.dir = "Left"))
                 => get_edge(new, "Left") = get_edge(old, "Left")
           /\ call.dir = "Center" => new.x = old.x
           /\ (call.dir = "Left" /\ (grows \/ shrinks)) => new.x < old.x
           /\ (call.dir = "Right" /\ (grows \/ shrinks)) => new.x > old.x

C8_Witness ==
    /\ call.op = "change_width"
    /\ call.dir = "Right"
    /\ call.arg < call.pre[call.target].w
    /\ blocks[call.target].x > call.pre[call.target].x

(***************************************************************************)
(* C9: change_height(h, dir) sets the height to h.  Growing Up keeps the   *)
(* bottom edge and moves the top edge up; shrinking Up keeps the top edge  *)
(* and moves the bottom edge up; growing Down keeps the top edge;          *)
(* shrinking Down keeps the bottom edge; Center keeps the centre.  x and   *)
(* the width are not changed.                                              *)
(***************************************************************************)
C9_ChangeHeight ==
    call.op = "change_height" =>
        LET old == call.pre[call.target]
            new == blocks[call.target]
            grows == call.arg > old.h
            shrinks == call.arg < old.h
        IN /\ new.h = call.arg
           /\ new.x = old.x /\ new.w = old.w
           /\ (grows /\ call.dir = "Up")
                 => /\ get_edge(new, "Bottom") = get_edge(old, "Bottom")
                    /\ get_edge(new, "Top") < get_edge(old, "Top")
           /\ (shrinks /\ call.dir = "Up")
                 => /\ get_edge(new, "Top") = get_edge(old, "Top")
                    /\ get_edge(new, "Bottom") < get_edge(old, "Bottom")
           /\ (grows /\ call.dir = "Down")
                 => get_edge(new, "Top") = get_edge(old, "Top")
           /\ (shrinks /\ call.dir = "Down")
                 => get_edge(new, "Bottom") = get_edge(old, "Bottom")
           /\ call.dir = "Center" => new.y = old.y

C9_Witness ==
    /\ call.op = "change_height"
    /\ call.dir = "Up"
    /\ call.arg < call.pre[call.target].h
    /\ get_edge(blocks[call.target], "Bottom")
           < get_edge(call.pre[call.target], "Bottom")

ElementOps == SchedulingOps \ {"add_idle"}

Tweens == { call.added[k] : k \in 1..Len(call.added) }

\* the tweens the call added to the element it was called on
OwnTweens == { tw \in Tweens : tw.target = call.target }

\* no tween of the call was placed before time 0
FromZero == \A tw \in Tweens : tw.start >= 0

\* the duration of the call's own animation
Duration ==
    IF call.op = "show" THEN scene.showTime
    ELSE IF call.op = "hide" THEN scene.hideTime
    ELSE IF call.op \in {"plug", "unplug"} THEN scene.linkTime
    ELSE IF call.op \in ResizeOps THEN scene.morphTime
    ELSE scene.moveTime

(***************************************************************************)
(* C11: an animation function called with an explicit startTime S returns  *)
(* S, the start time of the animation it scheduled.                        *)
(***************************************************************************)
C11_ReturnsStart ==
    (call.op \in ElementOps /\ call.start # None) => call.ret = call.start

(***************************************************************************)
(* C12: a scheduling call made without an explicit startTime adds no tween *)
(* that starts before the end the timeline had when it was called.         *)
(***************************************************************************)
C12_BackToBack ==
    (call.op \in SchedulingOps /\ call.start = None /\ FromZero)
        => \A tw \in Tweens : tw.start >= call.endBefore

(***************************************************************************)
(* C13: a call given an explicit startTime S animates its element within   *)
(* [S, S + duration]: every tween it adds to the element starts no earlier *)
(* than S and ends no later than S plus the duration of the call, wherever *)
(* the end of the timeline is.                                             *)
(***************************************************************************)
C13_StartsAtS ==
    (call.op \in ElementOps /\ call.start # None /\ FromZero)
        => \A tw \in OwnTweens :
               /\ tw.start >= call.start[1]
               /\ tw.start + tw.dur <= call.start[1] + Duration

C15_HideSymmetric ==
    (call.op = "hide" /\ call.start = None /\ FromZero)
        => /\ \A tw \in Tweens :
                  /\ tw.start >= call.endBefore
                  /\ tw.start + tw.dur <= call.endBefore + scene.hideTime
           /\ tl.end = call.endBefore + scene.hideTime

(***************************************************************************)
(* C16: no call makes the end of the timeline earlier than it was, be it   *)
(* made with or without an explicit startTime; add_idle, add_pause and     *)
(* fastforward included.                                                   *)
(***************************************************************************)
C16_EndNeverDecreases == tl.end >= call.endBefore

C16_Witness ==
    /\ call.op \in ElementOps \cup {"add_pause", "fastforward"}
    /\ call.prev.op \in SchedulingOps
    /\ call.endBefore > 0
    /\ \/ call.op \in {"add_pause", "fastforward"}
       \/ /\ call.start # None
          /\ \E tw \in Tweens : tw.start + tw.dur < call.endBefore
    /\ tl.end >= call.endBefore

(***************************************************************************)
(* The geometry on screen when the play head is at the end of the          *)
(* timeline: the attributes generate_svg gave the rectangle, the group     *)
(* translated by, and the rectangle sized to, the target of the tween that *)
(* applies last (scr is tl.byEnd or tl.byStart).                           *)
(***************************************************************************)
Final(scr, i, sel, prop, initial) ==
    IF \E r \in scr : r.target = i /\ r.sel = sel /\ r.prop = prop
    THEN (CHOOSE r \in scr : r.target = i /\ r.sel = sel /\ r.prop = prop).v
    ELSE initial

OnScreen(scr, i) ==
    LET width == Final(scr, i, "rect", "width", blocks[i].rect.width)
        height == Final(scr, i, "rect", "height", blocks[i].rect.height)
    IN [x |-> blocks[i].rect.x + Final(scr, i, "grp", "x", 0) + Half(width),
        y |-> blocks[i].rect.y + Final(scr, i, "grp", "y", 0) + Half(height),
        w |-> width,
        h |-> height]

\* get_x(), get_y(), get_w(), get_h()
Reported(i) ==
    [x |-> blocks[i].x, y |-> blocks[i].y, w |-> blocks[i].w, h |-> blocks[i].h]

(***************************************************************************)
(* C17: after any sequence of moves and resizes, with or without explicit  *)
(* start times, get_x, get_y, get_w and get_h of every element give the    *)
(* geometry the element has on screen at the end of the timeline (whether  *)
(* the tween that applies last is taken to be the one that ends last or    *)
(* the one that starts last).                                              *)
(***************************************************************************)
C17_ReportedIsFinal ==
    \A i \in 1..Len(blocks) :
        \/ Reported(i) = OnScreen(tl.byEnd, i)
        \/ Reported(i) = OnScreen(tl.byStart, i)

(***************************************************************************)
(* C18: in every reachable state the width and the height of every Block   *)
(* and of every Link are greater than or equal to 0.                       *)
(***************************************************************************)
C18_SizesNonNegative ==
    \A i \in 1..Len(blocks) : blocks[i].w >= 0 /\ blocks[i].h >= 0

(***************************************************************************)
(* Vocabulary of the properties of Position.                               *)
(***************************************************************************)
Evaluation == call.op = "Position" /\ call.axis \in {"x", "y", "k"}

\* the positions of the value tokens in value (operator value)*
ValuePositions(tokens) == { k \in 1..Len(tokens) : k % 2 = 1 }

\* the expression has the shape value (operator value)* and each of its
\* values is a number on the axis of the call
Numeric ==
    /\ call.tokens \in Expressions
    /\ \A k \in ValuePositions(call.tokens) :
           parse_value(scene, call.axis, call.tokens[k]).t = "number"

\* (((v0 op1 v1) op2 v2) ... opn vn), for the first n tokens
RECURSIVE LeftToRight(_, _)
LeftToRight(tokens, n) ==
    IF n = 1 THEN parse_value(scene, call.axis, tokens[1]).v
    ELSE IF tokens[n - 1] = Plus
    THEN LeftToRight(tokens, n - 2) + parse_value(scene, call.axis, tokens[n]).v
    ELSE LeftToRight(tokens, n - 2) - parse_value(scene, call.axis, tokens[n]).v

\* the registries a name is looked up in on an axis
Resolves(name, axis) ==
    \/ name \in DOMAIN scene.constants
    \/ axis = "x" /\ name \in DOMAIN scene.vguides
    \/ axis = "y" /\ name \in DOMAIN scene.hguides

Stored ==
    { scene.constants[n] : n \in DOMAIN scene.constants }
    \cup { scene.hguides[n] : n \in DOMAIN scene.hguides }
    \cup { scene.vguides[n] : n \in DOMAIN scene.vguides }

(***************************************************************************)
(* C19: Position evaluates v0 op1 v1 ... opn vn strictly from left to      *)
(* right, without precedence: the result is (((v0 op1 v1) op2 v2) ... opn  *)
(* vn), + adding and - subtracting.                                        *)
(***************************************************************************)
C19_LeftToRight ==
    (Evaluation /\ Numeric)
        => call.result = Num(LeftToRight(call.tokens, Len(call.tokens)))

C19_Witness ==
    /\ Evaluation
    /\ Numeric
    /\ Len(call.tokens) = 5
    /\ call.tokens[2] = Minus
    /\ call.tokens[4] = Plus
    /\ call.tokens[3] = <<"a">>
    /\ call.result = Num(LeftToRight(call.tokens, 5))
    /\ call.result.v
          # LeftToRight(call.tokens, 3) - 2 * parse_value(scene, call.axis, call.tokens[5]).v

(***************************************************************************)
(* C20: a name that resolves to neither a guide of the axis nor a constant *)
(* makes Position throw, wherever it stands in the expression, the first   *)
(* or only token included; so no registry ever holds undefined or NaN.     *)
(***************************************************************************)
C20_UnresolvedThrows ==
    /\ (/\ Evaluation
        /\ ~call.format.isNumber
        /\ \E k \in ValuePositions(call.tokens) :
               /\ IsName(call.tokens[k])
               /\ ~Resolves(call.tokens[k], call.axis))
          => call.result = Thrown
    /\ \A v \in Stored : v.t = "number"

(***************************************************************************)
(* Vocabulary of the properties of the registries.                         *)
(***************************************************************************)
AddOps == {"add_constant", "add_hguide", "add_vguide"}
GetOps == {"get_constant", "get_hguide", "get_vguide"}

Guides(sc) == DOMAIN sc.hguides \cup DOMAIN sc.vguides

\* the registry an add or a get is about
RegistryOf(sc, op) ==
    IF op \in {"add_constant", "get_constant"} THEN sc.constants
    ELSE IF op \in {"add_hguide", "get_hguide"} THEN sc.hguides
    ELSE sc.vguides

\* the name of the call was taken, before the call, in a namespace the call
\* has to keep it unique in
Collides ==
    \/ call.name \in DOMAIN call.pre.constants
    \/ call.op = "add_hguide" /\ call.name \in DOMAIN call.pre.hguides
    \/ call.op = "add_vguide" /\ call.name \in DOMAIN call.pre.vguides
    \/ call.op = "add_constant" /\ call.name \in Guides(call.pre)

\* every entry of map is in now, unchanged
Kept(map, now) == \A n \in DOMAIN map : n \in DOMAIN now /\ now[n] = map[n]

\* the expression that is one token
Single(token) == call.tokens = <<token>>

\* the number a percentage literal names
PercentOf(token) == Decimal(SubSeq(token, 1, Len(token) - 1))

(***************************************************************************)
(* C21: for every vertical guide Position on axis x of its name is the     *)
(* value stored for it, for every horizontal guide Position on axis y, and *)
(* for every constant Position on each of the axes x, y and k; on axis k   *)
(* the name of a guide is not resolved.                                    *)
(***************************************************************************)
C21_NamesResolve ==
    /\ \A n \in DOMAIN scene.vguides :
           Position(scene, "x", StringFormat(n)) = scene.vguides[n]
    /\ \A n \in DOMAIN scene.hguides :
           Position(scene, "y", StringFormat(n)) = scene.hguides[n]
    /\ \A n \in DOMAIN scene.constants : \A axis \in {"x", "y", "k"} :
           Position(scene, axis, StringFormat(n)) = scene.constants[n]
    /\ \A n \in Guides(scene) \ DOMAIN scene.constants :
           Position(scene, "k", StringFormat(n)) = Undefined
    /\ (Evaluation /\ Len(call.tokens) = 1 /\ call.axis = "x"
            /\ call.tokens[1] \in DOMAIN scene.vguides)
          => call.result = scene.vguides[call.tokens[1]]
    /\ (Evaluation /\ Len(call.tokens) = 1 /\ call.axis = "y"
            /\ call.tokens[1] \in DOMAIN scene.hguides)
          => call.result = scene.hguides[call.tokens[1]]
    /\ (Evaluation /\ Len(call.tokens) = 1
            /\ call.tokens[1] \in DOMAIN scene.constants)
          => call.result = scene.constants[call.tokens[1]]

C21_Witness ==
    /\ Evaluation
    /\ Single(<<"a">>)
    /\ call.axis = "x"
    /\ <<"a">> \in DOMAIN scene.vguides \cap DOMAIN scene.hguides
    /\ scene.vguides[<<"a">>].t = "number"
    /\ scene.hguides[<<"a">>].t = "number"
    /\ scene.vguides[<<"a">>] # scene.hguides[<<"a">>]
    /\ call.result = scene.vguides[<<"a">>]

(***************************************************************************)
(* C22: an unsigned integer literal evaluates to itself; N% evaluates to   *)
(* N/100 of the width of the scene on axis x and of its height on axis y,  *)
(* and throws on axis k, wherever it stands in an expression; a number     *)
(* given as the format is returned as it is on the axes x, y and k; an     *)
(* axis that is none of the three throws, for a number as well.            *)
(***************************************************************************)
C22_ValueTokens ==
    /\ (call.op = "Position" /\ call.axis \notin {"x", "y", "k"})
          => call.result = Thrown
    /\ (Evaluation /\ call.format.isNumber)
          => call.result = Num(call.format.n)
    /\ (Evaluation /\ Single(<<"5">>)) => call.result = Num(5 * 4)
    /\ (Evaluation /\ Single(<<"2", "0">>)) => call.result = Num(20 * 4)
    /\ (Evaluation /\ ~call.format.isNumber /\ Len(call.tokens) = 1
            /\ IsPercent(call.tokens[1]))
          => call.result =
                 (IF call.axis = "x"
                  THEN Num((scene.width * PercentOf(call.tokens[1])) \div 100)
                  ELSE IF call.axis = "y"
                  THEN Num((scene.height * PercentOf(call.tokens[1])) \div 100)
                  ELSE Thrown)
    /\ (Evaluation /\ call.axis = "k" /\ call.tokens \in Expressions
            /\ \E k \in ValuePositions(call.tokens) : IsPercent(call.tokens[k]))
          => call.result = Thrown

C22_Witness ==
    /\ Evaluation
    /\ Single(<<"5", "0", "%">>)
    /\ call.axis = "y"
    /\ scene.height = 540 * 4
    /\ call.result = Num(270 * 4)

(***************************************************************************)
(* C23: Position of the empty string, which has no tokens, throws.         *)
(***************************************************************************)
C23_EmptyThrows ==
    (call.op = "Position" /\ ~call.format.isNumber /\ call.format.str = << >>)
        => call.result = Thrown

(***************************************************************************)
(* C24: an integer or a percentage literal may be negative: -5 evaluates   *)
(* to -5 and -10% to minus a tenth of the scene, as the only token of an   *)
(* expression and after an operator.                                       *)
(***************************************************************************)
C24_NegativeLiterals ==
    /\ (Evaluation /\ Single(<<"-", "5">>)) => call.result = Num(-(5 * 4))
    /\ (Evaluation /\ Single(<<"-", "1", "0", "%">>) /\ call.axis = "x")
          => call.result = Num(-((scene.width * 10) \div 100))
    /\ (Evaluation /\ Single(<<"-", "1", "0", "%">>) /\ call.axis = "y")
          => call.result = Num(-((scene.height * 10) \div 100))
    /\ (Evaluation /\ call.tokens = << <<"5">>, Plus, <<"-", "5">> >>)
          => call.result = Num(0)

(***************************************************************************)
(* C25: add_hguide and add_vguide with a name that is a constant or a      *)
(* guide of the same axis, and add_constant with a name that is a constant *)
(* or a guide of either axis, throw.  A call that throws, for a collision, *)
(* an invalid name or an expression that throws, leaves the three          *)
(* registries as they were, and no call changes an entry that exists.      *)
(***************************************************************************)
C25_CollisionsRejected ==
    call.op \in AddOps =>
        /\ Collides => call.thrown
        /\ ~IsName(call.name) => call.thrown
        /\ call.result = Thrown => call.thrown
        /\ call.thrown => scene = call.pre
        /\ Kept(call.pre.constants, scene.constants)
        /\ Kept(call.pre.hguides, scene.hguides)
        /\ Kept(call.pre.vguides, scene.vguides)

C25_Witness ==
    /\ call.op = "add_hguide"
    /\ call.name \in DOMAIN call.pre.constants
    /\ call.result.t = "number"
    /\ call.result # call.pre.constants[call.name]
    /\ call.thrown
    /\ scene = call.pre

(***************************************************************************)
(* C26: names are unique across the three namespaces: no name is in two of *)
(* the registries of horizontal guides, vertical guides and constants.     *)
(***************************************************************************)
C26_OneNamespace ==
    /\ DOMAIN scene.hguides \cap DOMAIN scene.vguides = {}
    /\ DOMAIN scene.constants \cap Guides(scene) = {}

(***************************************************************************)
(* C26, amended: no name is both a constant and a guide, of either axis    *)
(* (one name may be a horizontal and a vertical guide).                    *)
(***************************************************************************)
C26_ConstantsApart == DOMAIN scene.constants \cap Guides(scene) = {}

C26_Witness ==
    /\ call.op = "add_constant"
    /\ call.name \in DOMAIN call.pre.vguides
    /\ call.name \notin DOMAIN call.pre.constants
    /\ call.result.t = "number"
    /\ call.thrown
    /\ DOMAIN scene.constants \cap Guides(scene) = {}

(***************************************************************************)
(* C27: get_hguide, get_vguide and get_constant throw for a name that was  *)
(* never registered.                                                       *)
(***************************************************************************)
C27_UnregisteredThrows ==
    (call.op \in GetOps /\ call.name \notin DOMAIN RegistryOf(scene, call.op))
        => call.result = Thrown

(***************************************************************************)
(* C27, amended: get_hguide, get_vguide and get_constant do not throw for  *)
(* a name that was never registered; they return undefined, or, for a name *)
(* that every object inherits from Object.prototype, what is inherited.    *)
(***************************************************************************)
C27_UnregisteredUndefined ==
    (call.op \in GetOps /\ call.name \notin DOMAIN RegistryOf(scene, call.op))
        => /\ ~call.thrown
           /\ call.name \notin ObjectPrototypeKeys => call.result = Undefined
           /\ call.name \in ObjectPrototypeKeys => call.result = Inherited

C27_Witness ==
    /\ call.op = "get_constant"
    /\ call.name \in DOMAIN scene.hguides
    /\ call.name \notin DOMAIN scene.constants
    /\ call.result = Undefined

(***************************************************************************)
(* C30: a Link that is unplugged, by its construction with plug = false or *)
(* by unplug(), still has no extent along its exit axis and lies at its    *)
(* source's exit edge after a move or resize of its source, whichever way  *)
(* the source's edge went.  It is stated for the call that follows the     *)
(* construction or the unplug, from a state where the Link lay at the      *)
(* source's exit edge with no extent.                                      *)
(***************************************************************************)
UnpluggedBefore(l) ==
    /\ call.prev.target = l
    /\ \/ call.prev.op = "Link" /\ ~call.prev.flag
       \/ call.prev.op = "unplug"
    /\ ExitSize(call.pre[l]) = 0
    /\ NearEdge(call.pre, l) = SrcEdge(call.pre, l)

C30_UnpluggedStaysEmpty ==
    BlockCall =>
        \A l \in OldLinks :
            (call.pre[l].src = call.target /\ UnpluggedBefore(l))
                => /\ ExitSize(blocks[l]) = 0
                   /\ NearEdge(blocks, l) = SrcEdge(blocks, l)
                   /\ FarEdge(blocks, l) = SrcEdge(blocks, l)

(***************************************************************************)
(* C28: the play head does not go past a pause point that add_pause        *)
(* placed ahead of it unless, after it stopped there, a key was pressed;   *)
(* and a key pressed while the scene is not paused changes nothing of the  *)
(* scene, the timeline and the blocks, so that the pause points ahead      *)
(* stay where they are.                                                    *)
(***************************************************************************)
C28_PauseHolds ==
    /\ call.op \in PlaybackOps =>
          \A p \in Play.checkpoints :
              (Play.from < p /\ p < tl.time) => p \in Play.released
    /\ (call.op = "handleEvent" /\ ~call.pre.scene.isPaused)
          => /\ scene = call.pre.scene
             /\ tl = call.pre.tl
             /\ blocks = call.pre.blocks

C28_Witness ==
    /\ call.op = "render"
    /\ Play.keys = 2
    /\ \E p \in Play.checkpoints :
          /\ Play.from < p
          /\ p < tl.time
          /\ p \in Play.released
    /\ \E q \in Play.checkpoints : q = tl.time /\ tl.paused /\ scene.isPaused

(***************************************************************************)
(* C29: the timeline restarts when it completes if and only if configure   *)
(* was given loop: true; after configure({loop: false}) it does not.       *)
(***************************************************************************)
C29_LoopIffTrue ==
    (call.op = "render" /\ call.completed)
        => (call.restarted <=> Play.loop = "true")

(***************************************************************************)
(* Vocabulary of the properties of the automatic update of a Link.         *)
(***************************************************************************)
\* the links the block the call was made on is the source of
OwnedLinks == { l \in OldLinks : call.pre[l].src = call.target }

\* the time the tweens of the call are to start at
CallStart == IF call.start = None THEN call.endBefore ELSE call.start[1]

(***************************************************************************)
(* C31: every tween that a move or a resize of a source block schedules    *)
(* for a Link the block owns (its resize, the move nested in the resize,   *)
(* its re-centring) has the duration of the source's own tween: moveTime   *)
(* for a move, morphTime for a resize, whatever the three durations are.   *)
(***************************************************************************)
C31_LinkInSync ==
    BlockCall =>
        \A l \in OwnedLinks :
            \A k \in TweensOf(l) : call.added[k].dur = Duration

(***************************************************************************)
(* C32: every tween that a move or a resize of a source block schedules    *)
(* for a Link the block owns starts at the time the source's own tweens    *)
(* start at: the startTime of the call, or the end the timeline had when   *)
(* the call was made without one.                                          *)
(***************************************************************************)
C32_LinkStartsWithSource ==
    BlockCall =>
        \A tw \in Tweens :
            tw.target \in OwnedLinks \cup {call.target} => tw.start = CallStart

C32_Witness ==
    /\ call.op \in MoveOps
    /\ call.start # None
    /\ CallStart # call.endBefore
    /\ \E l \in OwnedLinks :
          /\ Cardinality(TweensOf(l)) >= 2
          /\ \A k \in TweensOf(l) : call.added[k].start = CallStart
    /\ \E tw \in OwnTweens : tw.start = CallStart

(***************************************************************************)
(* Vocabulary of the draw order.                                           *)
(***************************************************************************)
\* the place of element e among the children of the SVG element: of two
\* children the one with the greater place is drawn later, on top
Place(svg, e) == CHOOSE k \in 1..Len(svg) : svg[k] = e

Drawn(svg) == { svg[k] : k \in 1..Len(svg) }

(***************************************************************************)
(* C33: whatever the order Blocks and Links were constructed in, every     *)
(* element is once among the children of the SVG element, above the        *)
(* canvas; every Link is drawn below every Block; and a Block that was     *)
(* just constructed is drawn above every element that existed before it.   *)
(***************************************************************************)
C33_TwoLayers ==
    /\ Len(scene.svg) = Len(blocks) + 1
    /\ Drawn(scene.svg) = 0..Len(blocks)
    /\ \A e \in 1..Len(blocks) : Place(scene.svg, 0) < Place(scene.svg, e)
    /\ \A l \in LinkIds(blocks), b \in BlockIds(blocks) :
           Place(scene.svg, l) < Place(scene.svg, b)
    /\ call.op = "Block"
          => \A e \in 1..Len(call.pre) :
                 Place(scene.svg, e) < Place(scene.svg, call.target)

C33_Witness ==
    /\ call.op = "Block"
    /\ \E l \in LinkIds(call.pre), b \in BlockIds(call.pre) :
          /\ b < l
          /\ Place(scene.svg, l) < Place(scene.svg, b)
          /\ Place(scene.svg, b) < Place(scene.svg, call.target)

(***************************************************************************)
(* Vocabulary of the resizes that follow one another.                      *)
(***************************************************************************)
\* the size a resize is about, of a geometry
SizeOf(op, g) == IF op = "change_width" THEN g.w ELSE g.h

\* the call undid the size of the call before it: this was a resize of the
\* same element from w1 to a greater w2, and the call resized back to w1
ResizedBack ==
    /\ call.op \in ResizeOps
    /\ call.prev.op = call.op
    /\ call.prev.target = call.target
    /\ call.prev.arg > SizeOf(call.op, call.prev.geometry)
    /\ call.arg = SizeOf(call.op, call.prev.geometry)

Reverse(dir) ==
    IF dir = "Left" THEN "Right"
    ELSE IF dir = "Right" THEN "Left"
    ELSE IF dir = "Up" THEN "Down"
    ELSE IF dir = "Down" THEN "Up"
    ELSE "Center"

\* the geometry g with its centre displaced by d in direction dir
Displaced(g, dir, d) ==
    IF dir = "Left" THEN [g EXCEPT !.x = @ - d]
    ELSE IF dir = "Right" THEN [g EXCEPT !.x = @ + d]
    ELSE IF dir = "Up" THEN [g EXCEPT !.y = @ - d]
    ELSE IF dir = "Down" THEN [g EXCEPT !.y = @ + d]
    ELSE g

(***************************************************************************)
(* C34: a resize from w1 to a greater w2 in one direction and back to w1   *)
(* in the opposite direction (Left then Right, Right then Left, Up then    *)
(* Down, Down then Up, Center then Center) gives x, y, w and h the values  *)
(* they had; growing and shrinking back in the same direction, not Center, *)
(* displaces the centre by w2 - w1 in that direction and changes nothing   *)
(* else.                                                                   *)
(***************************************************************************)
C34_ResizeRoundTrip ==
    ResizedBack =>
        /\ call.dir = Reverse(call.prev.dir)
              => Geometry(blocks[call.target]) = call.prev.geometry
        /\ (call.dir = call.prev.dir /\ call.dir # "Center")
              => Geometry(blocks[call.target]) =
                     Displaced(call.prev.geometry, call.dir,
                               call.prev.arg - call.arg)

C34_Witness ==
    /\ ResizedBack
    /\ call.op = "change_height"
    /\ call.prev.dir = "Up"
    /\ call.dir = "Down"
    /\ Geometry(call.pre[call.target]) # call.prev.geometry
    /\ Geometry(blocks[call.target]) = call.prev.geometry

(***************************************************************************)
(* Vocabulary of the repeated update.                                      *)
(***************************************************************************)
\* the call was made on the element the call before it was made on, and was
\* the same call
Repeated == call.prev.op = call.op /\ call.prev.target = call.target

\* the call made once more, on the state it left
Again ==
    IF call.op = "update" THEN update(st0, call.target, None)
    ELSE plug(st0, call.target, None)

\* the resize moved the block to keep an edge or the centre fixed, which
\* let the links be updated twice
Anchored == \E tw \in OwnTweens : tw.sel = "grp"

\* the links as they were before the call, the element the call was made on
\* as it is after it
SourceDone == [st0 EXCEPT !.blocks = [call.pre EXCEPT ![call.target] = blocks[call.target]]]

(***************************************************************************)
(* C35: update() and plug() called a second time, nothing else having been *)
(* called in between, leave x, y, w and h of the Link as they are; and the *)
(* two updates of its links that a resize of a source makes when it moves  *)
(* the source leave an owned Link with the geometry that one update gives. *)
(***************************************************************************)
C35_UpdateIdempotent ==
    /\ (call.op \in {"update", "plug"} /\ Repeated)
          => Geometry(blocks[call.target]) = Geometry(call.pre[call.target])
    /\ call.op \in {"update", "plug"}
          => Geometry(Again.blocks[call.target]) = Geometry(blocks[call.target])
    /\ (call.op \in ResizeOps /\ Anchored)
          => \A l \in OwnedLinks :
                 Geometry(blocks[l]) =
                     Geometry(update(SourceDone, l, None).blocks[l])

C35_Witness ==
    /\ call.op = "update"
    /\ Geometry(blocks[call.target]) # Geometry(call.pre[call.target])
    /\ Geometry(Again.blocks[call.target]) = Geometry(blocks[call.target])

(***************************************************************************)
(* Vocabulary of the propagation of a call along the chains of Links.      *)
(***************************************************************************)
\* the number of Links on the chain from element t down to the Link l it
\* owns, directly (1) or through other Links
RECURSIVE Depth(_, _, _)
Depth(bs, t, l) == IF bs[l].src = t THEN 1 ELSE 1 + Depth(bs, t, bs[l].src)

\* the number of times the call updated Link l: an update resizes the link
\* once, and a resize inserts one tween of the rectangle
Visits(l) ==
    Cardinality({ k \in TweensOf(l) : call.added[k].sel = "rect" })

\* a call updates the links of its element at most twice (a resize that
\* moves the element), an update those of its Link at most three times (the
\* resize, the move nested in it, the re-centring)
VisitBound(depth) == 2 * 3 ^ (depth - 1)

(***************************************************************************)
(* C36: the source of a Link was constructed before the Link and the links *)
(* an element keeps are the Links it is the source of, so no Link owns     *)
(* itself, directly or through a chain of Links; and a move, resize, plug, *)
(* unplug or update returns after it has updated every Link its element    *)
(* owns at least once and at most a number of times that the length of the *)
(* chain bounds, and no other Link.                                        *)
(***************************************************************************)
C36_PropagationEnds ==
    /\ \A l \in LinkIds(blocks) : blocks[l].src \in 1..(l - 1)
    /\ \A l \in LinkIds(blocks) : l \notin Owners(blocks, l)
    /\ \A i \in 1..Len(blocks) :
           /\ \A k \in 1..Len(blocks[i].links) :
                  /\ IsLink(blocks[blocks[i].links[k]])
                  /\ blocks[blocks[i].links[k]].src = i
           /\ \A l \in LinkIds(blocks) :
                  blocks[l].src = i => Count(blocks[i].links, l) = 1
    /\ call.n > 0 =>
           \A l \in LinkIds(call.pre) \ {call.target} :
               IF call.target \in Owners(call.pre, l)
               THEN /\ Visits(l) >= 1
                    /\ Visits(l) <= VisitBound(Depth(call.pre, call.target, l))
               ELSE TweensOf(l) = {}

C36_Witness ==
    /\ call.op \in ResizeOps
    /\ ~IsLink(call.pre[call.target])
    /\ \E l \in LinkIds(call.pre) :
          /\ call.target \in Owners(call.pre, l)
          /\ Depth(call.pre, call.target, l) = 2
          /\ Visits(l) > 2

(***************************************************************************)
(* Vocabulary of the lookup of a name.                                     *)
(***************************************************************************)
\* the registries parse_value may take the value of a name from on an axis:
\* the guides of the axis, then the constants
Candidates(sc, axis, name) ==
    (IF axis = "x" /\ name \in DOMAIN sc.vguides THEN {"vguides"} ELSE {})
    \cup (IF axis = "y" /\ name \in DOMAIN sc.hguides THEN {"hguides"} ELSE {})
    \cup (IF name \in DOMAIN sc.constants THEN {"constants"} ELSE {})

Registered(sc) == DOMAIN sc.constants \cup Guides(sc)

(***************************************************************************)
(* C37: in whatever order add_constant, add_hguide and add_vguide were     *)
(* called, no name is at once a constant and a horizontal or a vertical    *)
(* guide, so that on each axis at most one registry has a value for a      *)
(* name; an add that would make a name both throws.                        *)
(***************************************************************************)
C37_OneCandidate ==
    /\ \A name \in Registered(scene) : \A axis \in {"x", "y", "k"} :
           Cardinality(Candidates(scene, axis, name)) <= 1
    /\ \A name \in DOMAIN scene.constants :
           name \notin DOMAIN scene.hguides /\ name \notin DOMAIN scene.vguides
    /\ (/\ call.op \in {"add_hguide", "add_vguide"}
        /\ call.name \in DOMAIN call.pre.constants)
          => call.thrown
    /\ (call.op = "add_constant" /\ call.name \in Guides(call.pre))
          => call.thrown

C37_Witness ==
    /\ call.op = "add_vguide"
    /\ call.name \in DOMAIN call.pre.constants
    /\ call.result.t = "number"
    /\ call.thrown
    /\ Candidates(scene, "x", call.name) = {"constants"}

(***************************************************************************)
(* C38: after every call has returned every Link has the type tag 'Link'   *)
(* and every plain Block the type tag 'Block': the tag 'Block' a Link      *)
(* bears while its source updates it is taken back, also for a Link on a   *)
(* chain of Links.  So plug() and unplug() called on a Link give every     *)
(* tween of the Link the duration linkTime.                                *)
(***************************************************************************)
C38_TagRestored ==
    /\ \A l \in LinkIds(blocks) : blocks[l].baseType = "Link"
    /\ \A b \in BlockIds(blocks) : blocks[b].baseType = "Block"
    /\ call.op \in {"plug", "unplug"}
          => \A tw \in OwnTweens : tw.dur = scene.linkTime

C38_Witness ==
    /\ call.op \in MoveOps \cup ResizeOps
    /\ scene.linkTime # scene.morphTime
    /\ scene.linkTime # scene.moveTime
    /\ \E l \in LinkIds(call.pre), m \in LinkIds(call.pre) :
          /\ call.pre[l].src = call.target
          /\ call.pre[m].src = l
          /\ \E k \in TweensOf(m) : call.added[k].dur # scene.linkTime
          /\ blocks[l].baseType = "Link"
          /\ blocks[m].baseType = "Link"

====
